---- MODULE Spec2Model ----
(***************************************************************************)
(* A model of the Kite integration layer: the broker client adapter        *)
(* (src/src/kite_service.py, class KiteService) with its process-wide      *)
(* instrument catalog cache, and the historical bar fetcher of             *)
(* src/src/filter1.py (class Filter1).                                     *)
(*                                                                         *)
(* Python values are represented as follows.                               *)
(*   None            the empty tuple <<>>; a present value x is <<x>>      *)
(*   a dict          a function on its keys                                *)
(*   a falsy string  "" (stands for None and for the empty string)         *)
(*   a falsy token   0  (stands for None and for zero)                     *)
(*   an envelope     a record with a success field                         *)
(*   a vendor call   its outcome is an input: a raised fault or a value    *)
(***************************************************************************)
EXTENDS Integers, Sequences, FiniteSets, TLC

\* ------------------------------------------------------------------ bounds

\* The longest instrument list the vendor or an instrument file delivers.
MaxInstruments == 2

\* The longest bar series the vendor delivers for one instrument.
MaxBars == 2

\* The most rows an instrument file holds.
MaxFileInstruments == 3

\* The most instruments of the vendor catalog that Filter1 snapshots.
MaxCatalogRows == 3

\* The most bars of a series that is analysed alone.
MaxAnalysisBars == 4

\* The most instruments of a collection that is analysed.
MaxResults == 2

\* The request threads of the web host that call get_instruments.
MaxThreads == 2

MaxFetches == 3

\* ------------------------------------------------------------ Python values

None == <<>>

Some(x) == <<x>>

Val(o) == o[1]

EmptyDict == <<>>

\* Outcome of one vendor SDK call: it raises, or it returns a value.
Fault == [fault |-> TRUE, message |-> "vendor fault"]

Returns(v) == [fault |-> FALSE, value |-> v]

\* {'success': False, 'error': <message>}; a message is a sequence of pieces.
Failure(message) == [success |-> FALSE, error |-> message]

\* ------------------------------------------------------------- instruments

Symbols == {"", "A", "B"}

Tokens == {0, 1, 2}

Instrument(symbol, token) == [tradingsymbol |-> symbol, instrument_token |-> token]

Instruments == {Instrument(s, t) : s \in Symbols, t \in Tokens}

SeqsUpTo(S, n) == UNION {[1..k -> S] : k \in 0..n}

InstrumentLists == SeqsUpTo(Instruments, MaxInstruments)

Exchanges == {"", "NSE", "BSE"}

\* exchange or 'NSE'
ExchangeOrNSE(exchange) == IF exchange = "" THEN "NSE" ELSE exchange

\* ------------------------------------------------------------- the state

VARIABLES
    instruments_list,          \* KiteService._instruments_list
    symbol_to_instrument_map,  \* KiteService._symbol_to_instrument_map
    token_to_instrument_map,   \* KiteService._token_to_instrument_map
    access_token,              \* self.access_token, as also set on self.kite
    first_fetched,             \* history: the list of the first successful fetch
    last,                      \* the last operation: its name and arguments, what
                               \* it returned, whether it raised, and the vendor
                               \* calls it made, each <<function, argument, result>>
    kite_service,              \* Filter1.kite_service, and the kite_service of
                               \* main.py: TRUE an adapter, FALSE None
    instruments_file,          \* the rows of the instrument file, None when absent
    dirs,                      \* the directories that exist
    ohlc_files,                \* per output path the rows of the file, None when absent
    fetch,                     \* the frame of fetch_instruments_and_historical_data:
                               \* its position, arguments, locals and return value
    snapshot_csv,              \* results/instruments/nse-instruments.csv: its rows
                               \* as written, None when absent
    indices_csv,               \* results/instruments/nse-indices.csv, likewise
    other_csv,                 \* results/instruments/nse-other-instruments.csv
    csv_last,                  \* the last get_instruments_data or process_csv call
    analysis,                  \* the last analyze_historical_data call: its
                               \* argument and what it returned
    environ,                   \* os.getenv at construction of the Adapter:
                               \* KITE_API_KEY and KITE_API_SECRET, "" when unset
    env_file,                  \* the KITE_ACCESS_TOKEN value in the .env file,
                               \* None when the file is absent
    response,                  \* the last HTTP response of the web service
    threads                    \* per request thread of the web host, the frame
                               \* of its get_instruments call

adapter_vars == <<instruments_list, symbol_to_instrument_map, token_to_instrument_map,
                  access_token, first_fetched, last>>

csv_vars == <<snapshot_csv, indices_csv, other_csv, csv_last>>

filter_vars == <<kite_service, instruments_file, dirs, ohlc_files, fetch, csv_vars, analysis>>

web_vars == <<environ, env_file, response, threads>>

vars == <<adapter_vars, filter_vars, web_vars>>

\* The default output path and one outside the results directory.
OutputPaths == {"results/ohlc-nse-indices.csv", "out/ohlc.csv"}

ParentDir(path) == IF path = "out/ohlc.csv" THEN "out" ELSE "results"

\* No call of fetch_instruments_and_historical_data is in progress.
IdleFrame ==
    [pc |-> "idle", output_file_path |-> "", instruments |-> <<>>, i |-> 0,
     all_instrument_histories |-> <<>>, requests |-> <<>>, loaded |-> FALSE, ret |-> None]

\* No get_instruments_data or process_csv call has been made.
NoCsvCall == [op |-> "init", ret |-> None, raised |-> FALSE, vendor |-> <<>>,
              instruments |-> <<>>, indices_df |-> <<>>, other_instruments_df |-> <<>>]

\* No catalog file exists.
NoCsv ==
    /\ snapshot_csv = None
    /\ indices_csv = None
    /\ other_csv = None
    /\ csv_last = NoCsvCall

\* analyze_historical_data has not been called.
NoAnalysis == [historical_data_results |-> <<>>, ret |-> None]

\* Both credentials set.
Credentials == [KITE_API_KEY |-> "key", KITE_API_SECRET |-> "secret"]

\* No request has been answered.
NoResponse == [path |-> "", data |-> <<>>, status |-> 0, body |-> None, called |-> FALSE]

\* No thread is inside get_instruments.
Threads == 1..MaxThreads

IdleThread == [pc |-> "idle", instruments |-> <<>>, i |-> 0, ret |-> None]

\* The web service is not running.
NoWeb ==
    /\ env_file = None
    /\ response = NoResponse
    /\ threads = [t \in Threads |-> IdleThread]

WebIdle ==
    /\ environ = Credentials
    /\ NoWeb

\* The environments a process is started in: each credential set or not.
Environs == [KITE_API_KEY : {"", "key"}, KITE_API_SECRET : {"", "secret"}]

\* KiteService() that tests only the API key.
KiteService_init_key_only(env) ==
    IF env.KITE_API_KEY = ""
    THEN [raised |-> TRUE, message |-> "KITE_API_KEY environment variable is required"]
    ELSE [raised |-> FALSE, message |-> ""]

\* KiteService.__init__: ValueError when a credential is missing or empty.
KiteService_init(env) ==
    IF env.KITE_API_KEY = ""
    THEN [raised |-> TRUE, message |-> "KITE_API_KEY environment variable is required"]
    ELSE IF env.KITE_API_SECRET = ""
    THEN [raised |-> TRUE, message |-> "KITE_API_SECRET environment variable is required"]
    ELSE [raised |-> FALSE, message |-> ""]

\* Filter1.__init__: kite_service is the Adapter (TRUE), or None (FALSE)
\* when its construction raised.
Filter1_init(env) == ~KiteService_init(env).raised

\* Filter1 holding an adapter, before any file exists.
FilterIdle ==
    /\ kite_service = TRUE
    /\ instruments_file = None
    /\ dirs = {}
    /\ ohlc_files = [path \in OutputPaths |-> None]
    /\ fetch = IdleFrame
    /\ NoCsv
    /\ analysis = NoAnalysis

Cache == [list |-> instruments_list,
          smap |-> symbol_to_instrument_map,
          tmap |-> token_to_instrument_map]

EmptyCache == [list |-> None, smap |-> None, tmap |-> None]

Called(fn, arg, outcome) == <<fn, arg, IF outcome.fault THEN "fault" ELSE "ok">>

\* ------------------------------------------------- KiteService: the catalog

\* d[k] = v is skipped when the key is already there: the first write wins.
DictSetDefault(d, k, v) ==
    [x \in (DOMAIN d) \cup {k} |-> IF x \in DOMAIN d THEN d[x] ELSE v]

\* d[k] = v on a dict: the key is added, or its value overwritten.
DictPut(d, k, v) == [x \in (DOMAIN d) \cup {k} |-> IF x = k THEN v ELSE d[x]]

\* The loop of get_instruments: one pass, a repeated key overwrites.
RECURSIVE BuildSymbolMap(_, _)
BuildSymbolMap(instruments, m) ==
    IF instruments = <<>> THEN m
    ELSE LET instrument == Head(instruments)
             trading_symbol == instrument.tradingsymbol
         IN BuildSymbolMap(Tail(instruments),
                IF trading_symbol # "" THEN DictPut(m, trading_symbol, instrument) ELSE m)

RECURSIVE BuildTokenMap(_, _)
BuildTokenMap(instruments, m) ==
    IF instruments = <<>> THEN m
    ELSE LET instrument == Head(instruments)
             instrument_token == instrument.instrument_token
         IN BuildTokenMap(Tail(instruments),
                IF instrument_token # 0 THEN DictPut(m, instrument_token, instrument) ELSE m)

\* The fetch with the cache assigned before the vendor call returns.
fetch_instruments_cache_first(cache, exchange, outcome) ==
    IF outcome.fault
    THEN [ret |-> Failure(<<outcome.message>>), raised |-> FALSE,
          cache |-> [list |-> Some(<<>>), smap |-> Some(EmptyDict), tmap |-> Some(EmptyDict)],
          vendor |-> <<Called("instruments", ExchangeOrNSE(exchange), outcome)>>]
    ELSE [ret |-> [success |-> TRUE, instruments |-> outcome.value,
                   symbol_to_instrument_map |-> Some(BuildSymbolMap(outcome.value, EmptyDict)),
                   token_to_instrument_map |-> Some(BuildTokenMap(outcome.value, EmptyDict))],
          raised |-> FALSE,
          cache |-> [list |-> Some(outcome.value),
                     smap |-> Some(BuildSymbolMap(outcome.value, EmptyDict)),
                     tmap |-> Some(BuildTokenMap(outcome.value, EmptyDict))],
          vendor |-> <<Called("instruments", ExchangeOrNSE(exchange), outcome)>>]

\* get_instruments past the cache test: the vendor call, the cache
\* assignments and the map-building loop, or the except branch.
fetch_instruments(cache, exchange, outcome) ==
    IF outcome.fault
    THEN [ret |-> Failure(<<outcome.message>>), raised |-> FALSE, cache |-> cache,
          vendor |-> <<Called("instruments", ExchangeOrNSE(exchange), outcome)>>]
    ELSE LET instruments == outcome.value
             smap == BuildSymbolMap(instruments, EmptyDict)
             tmap == BuildTokenMap(instruments, EmptyDict)
         IN [ret |-> [success |-> TRUE, instruments |-> instruments,
                      symbol_to_instrument_map |-> Some(smap),
                      token_to_instrument_map |-> Some(tmap)],
             raised |-> FALSE,
             cache |-> [list |-> Some(instruments), smap |-> Some(smap), tmap |-> Some(tmap)],
             vendor |-> <<Called("instruments", ExchangeOrNSE(exchange), outcome)>>]

\* get_instruments without the cache test: every call fetches.
get_instruments_no_memo(cache, exchange, outcome) ==
    fetch_instruments(cache, exchange, outcome)

\* KiteService.get_instruments: the envelope returned, the cache after the
\* call and the vendor calls made, given the outcome the vendor call has
\* if it is made.
get_instruments(cache, exchange, outcome) ==
    IF cache.list # None
    THEN [ret |-> [success |-> TRUE, instruments |-> Val(cache.list),
                   symbol_to_instrument_map |-> cache.smap,
                   token_to_instrument_map |-> cache.tmap],
          raised |-> FALSE, cache |-> cache, vendor |-> <<>>]
    ELSE fetch_instruments(cache, exchange, outcome)

\* get_instrument_token without the except branch: .get on the unset map
\* raises out of the operation.
get_instrument_token_uncaught(cache, symbol, outcome) ==
    LET r == IF cache.smap = None
             THEN get_instruments(cache, "", outcome)
             ELSE [cache |-> cache, vendor |-> <<>>]
        smap == r.cache.smap
    IN [ret |-> IF smap = None THEN None
                ELSE IF symbol \in DOMAIN Val(smap)
                     THEN Some(Val(smap)[symbol].instrument_token)
                     ELSE None,
        raised |-> smap = None, cache |-> r.cache, vendor |-> r.vendor]

\* KiteService.get_instrument_token: the token of the symbol, or None.
\* With the symbol map still unset after the fetch, .get on None raises
\* and the except branch returns None.
get_instrument_token(cache, symbol, outcome) ==
    LET r == IF cache.smap = None
             THEN get_instruments(cache, "", outcome)
             ELSE [cache |-> cache, vendor |-> <<>>]
        smap == r.cache.smap
    IN [ret |-> IF smap = None THEN None
                ELSE IF symbol \in DOMAIN Val(smap)
                     THEN Some(Val(smap)[symbol].instrument_token)
                     ELSE None,
        raised |-> FALSE, cache |-> r.cache, vendor |-> r.vendor]

\* KiteService.get_instrument_details: the instrument of the symbol, or None.
get_instrument_details(cache, symbol, outcome) ==
    LET r == IF cache.smap = None
             THEN get_instruments(cache, "", outcome)
             ELSE [cache |-> cache, vendor |-> <<>>]
        smap == r.cache.smap
    IN [ret |-> IF smap = None THEN None
                ELSE IF symbol \in DOMAIN Val(smap) THEN Some(Val(smap)[symbol]) ELSE None,
        raised |-> FALSE, cache |-> r.cache, vendor |-> r.vendor]

CatalogOutcomes == {Fault} \cup {Returns(l) : l \in InstrumentLists}

\* What the vendor would deliver to a call made while the catalog is cached
\* (the code makes no such call): a fault or a catalog of at most one instrument.
LaterOutcomes(outcomes) == {o \in outcomes : o.fault \/ Len(o.value) <= 1}

OutcomesNow(outcomes) ==
    IF instruments_list = None \/ symbol_to_instrument_map = None
    THEN outcomes ELSE LaterOutcomes(outcomes)

LookupSymbols == {"A", "B", "Z"}

Operation(op, args, r) ==
    [op |-> op, args |-> args, ret |-> r.ret, raised |-> r.raised, vendor |-> r.vendor]

SetCache(r) ==
    /\ instruments_list' = r.cache.list
    /\ symbol_to_instrument_map' = r.cache.smap
    /\ token_to_instrument_map' = r.cache.tmap
    /\ first_fetched' =
          IF first_fetched = None /\ r.vendor # <<>> /\ r.vendor[1][3] = "ok"
          THEN r.cache.list ELSE first_fetched

GetInstruments(outcomes) ==
    \E exchange \in Exchanges, outcome \in OutcomesNow(outcomes) :
        LET r == get_instruments(Cache, exchange, outcome)
        IN /\ SetCache(r)
           /\ last' = Operation("get_instruments", <<exchange>>, r)
           /\ UNCHANGED <<access_token, filter_vars, web_vars>>

GetInstrumentToken(outcomes) ==
    \E symbol \in LookupSymbols, outcome \in OutcomesNow(outcomes) :
        LET r == get_instrument_token(Cache, symbol, outcome)
        IN /\ SetCache(r)
           /\ last' = Operation("get_instrument_token", <<symbol>>, r)
           /\ UNCHANGED <<access_token, filter_vars, web_vars>>

GetInstrumentDetails(outcomes) ==
    \E symbol \in LookupSymbols, outcome \in OutcomesNow(outcomes) :
        LET r == get_instrument_details(Cache, symbol, outcome)
        IN /\ SetCache(r)
           /\ last' = Operation("get_instrument_details", <<symbol>>, r)
           /\ UNCHANGED <<access_token, filter_vars, web_vars>>

NoOperation == [op |-> "init", args |-> <<>>, ret |-> None, raised |-> FALSE, vendor |-> <<>>]

InitCatalog ==
    /\ instruments_list = None
    /\ symbol_to_instrument_map = None
    /\ token_to_instrument_map = None
    /\ access_token = ""
    /\ first_fetched = None
    /\ last = NoOperation
    /\ FilterIdle
    /\ WebIdle

NextCatalog ==
    \/ GetInstruments(CatalogOutcomes)
    \/ GetInstrumentToken(CatalogOutcomes)
    \/ GetInstrumentDetails(CatalogOutcomes)

\* The catalog cache under every vendor catalog of up to MaxInstruments.
SpecCatalog == InitCatalog /\ [][NextCatalog]_vars

\* ------------------------------------------- KiteService: historical_data

\* The bar of the k-th day.
Bar(k) == [date |-> k, close |-> 100 + 10 * (k - 1)]

\* What the vendor's historical_data call delivers: the bars of the first
\* days of the window, in ascending date order.
BarSeries == {[k \in 1..n |-> Bar(k)] : n \in 0..MaxBars}

HistoricalOutcomes == {Fault} \cup {Returns(b) : b \in BarSeries}

\* The interval list with a value left out.
valid_intervals_short ==
    <<"minute", "3minute", "5minute", "10minute", "15minute", "30minute", "day">>

valid_intervals ==
    <<"minute", "3minute", "5minute", "10minute", "15minute", "30minute", "60minute", "day">>

Range(f) == {f[i] : i \in DOMAIN f}

\* sep.join(pieces), as the sequence of the pieces and the separators.
RECURSIVE Join(_, _)
Join(pieces, sep) ==
    IF Len(pieces) <= 1 THEN pieces
    ELSE <<Head(pieces), sep>> \o Join(Tail(pieces), sep)

\* The checks with the interval looked at before the dates.
validation_error_interval_first(instrument_token, from_date, to_date, interval) ==
    IF instrument_token = 0 THEN Some(<<"instrument_token is required">>)
    ELSE IF interval = "" THEN Some(<<"interval is required">>)
    ELSE IF from_date = "" \/ to_date = ""
         THEN Some(<<"from_date and to_date are required">>)
    ELSE IF interval \notin Range(valid_intervals)
         THEN Some(<<"Invalid interval. Valid values: ">> \o Join(valid_intervals, ", "))
    ELSE None

\* The checks with only one of the two dates required.
validation_error_one_date(instrument_token, from_date, to_date, interval) ==
    IF instrument_token = 0 THEN Some(<<"instrument_token is required">>)
    ELSE IF from_date = "" /\ to_date = ""
         THEN Some(<<"from_date and to_date are required">>)
    ELSE IF interval = "" THEN Some(<<"interval is required">>)
    ELSE IF interval \notin Range(valid_intervals)
         THEN Some(<<"Invalid interval. Valid values: ">> \o Join(valid_intervals, ", "))
    ELSE None

\* The four checks of historical_data in the order of the code: the message
\* of the first one that fails, or None when all pass.
validation_error(instrument_token, from_date, to_date, interval) ==
    IF instrument_token = 0 THEN Some(<<"instrument_token is required">>)
    ELSE IF from_date = "" \/ to_date = ""
         THEN Some(<<"from_date and to_date are required">>)
    ELSE IF interval = "" THEN Some(<<"interval is required">>)
    ELSE IF interval \notin Range(valid_intervals)
         THEN Some(<<"Invalid interval. Valid values: ">> \o Join(valid_intervals, ", "))
    ELSE None

\* historical_data with the fault of the vendor call not caught.
historical_data_uncaught(instrument_token, from_date, to_date, interval, outcome) ==
    LET error == validation_error(instrument_token, from_date, to_date, interval)
        call == Called("historical_data",
                       <<instrument_token, from_date, to_date, interval>>, outcome)
    IN IF error # None
       THEN [ret |-> Failure(Val(error)), raised |-> FALSE, vendor |-> <<>>]
       ELSE IF outcome.fault
       THEN [ret |-> None, raised |-> TRUE, vendor |-> <<call>>]
       ELSE [ret |-> [success |-> TRUE, data |-> outcome.value,
                      instrument_token |-> instrument_token,
                      from_date |-> from_date, to_date |-> to_date,
                      interval |-> interval, continuous |-> FALSE, oi |-> FALSE,
                      count |-> Len(outcome.value)],
             raised |-> FALSE, vendor |-> <<call>>]

\* KiteService.historical_data (continuous and oi at their defaults).
historical_data(instrument_token, from_date, to_date, interval, outcome) ==
    LET error == validation_error(instrument_token, from_date, to_date, interval)
        call == Called("historical_data",
                       <<instrument_token, from_date, to_date, interval>>, outcome)
    IN IF error # None
       THEN [ret |-> Failure(Val(error)), raised |-> FALSE, vendor |-> <<>>]
       ELSE IF outcome.fault
       THEN [ret |-> Failure(<<outcome.message>>), raised |-> FALSE, vendor |-> <<call>>]
       ELSE [ret |-> [success |-> TRUE, data |-> outcome.value,
                      instrument_token |-> instrument_token,
                      from_date |-> from_date, to_date |-> to_date,
                      interval |-> interval, continuous |-> FALSE, oi |-> FALSE,
                      count |-> Len(outcome.value)],
             raised |-> FALSE, vendor |-> <<call>>]

Dates == {"", "2024-01-01"}

\* The eight valid intervals, the missing interval and two invalid ones.
IntervalInputs == Range(valid_intervals) \cup {"", "week", "hour"}

\* ------------------------------------- KiteService: the other operations

\* The operations that are one vendor call inside try/except.
SimpleOps == {"get_profile", "get_margins", "get_holdings", "get_positions",
              "get_orders", "get_ohlc", "get_ltp", "place_order", "modify_order",
              "cancel_order", "get_order_history"}

\* The method of self.kite an operation calls.
VendorFn(op) ==
    CASE op = "get_profile" -> "profile"
      [] op = "get_margins" -> "margins"
      [] op = "get_holdings" -> "holdings"
      [] op = "get_positions" -> "positions"
      [] op = "get_orders" -> "orders"
      [] op = "get_ohlc" -> "ohlc"
      [] op = "get_ltp" -> "ltp"
      [] op = "place_order" -> "place_order"
      [] op = "modify_order" -> "modify_order"
      [] op = "cancel_order" -> "cancel_order"
      [] op = "get_order_history" -> "order_history"
      [] op = "get_login_url" -> "login_url"
      [] op = "generate_session" -> "generate_session"
      [] op = "get_instruments" -> "instruments"
      [] op = "get_quote" -> "quote"
      [] op = "historical_data" -> "historical_data"

\* The key of the success envelope that carries the vendor's value.
PayloadKey(op) ==
    CASE op = "get_profile" -> "profile"
      [] op = "get_margins" -> "margins"
      [] op = "get_holdings" -> "holdings"
      [] op = "get_positions" -> "positions"
      [] op = "get_orders" -> "orders"
      [] op = "get_ohlc" -> "ohlc"
      [] op = "get_ltp" -> "ltp"
      [] op = "place_order" -> "order_id"
      [] op = "modify_order" -> "order_id"
      [] op = "cancel_order" -> "order_id"
      [] op = "get_order_history" -> "history"

\* {'success': True, key: value}
Envelope(key, value) == [x \in {"success", key} |-> IF x = "success" THEN TRUE ELSE value]

\* get_profile, get_margins, get_holdings, get_positions, get_orders, get_ohlc,
\* get_ltp, place_order, modify_order, cancel_order, get_order_history.
simple_vendor_op(op, args, outcome) ==
    IF outcome.fault
    THEN [ret |-> Failure(<<outcome.message>>), raised |-> FALSE,
          vendor |-> <<Called(VendorFn(op), args, outcome)>>]
    ELSE [ret |-> Envelope(PayloadKey(op), outcome.value), raised |-> FALSE,
          vendor |-> <<Called(VendorFn(op), args, outcome)>>]

\* KiteService.get_login_url: the vendor call is not inside a try/except, and
\* what is returned is the URL itself, not an envelope.
get_login_url(outcome) ==
    IF outcome.fault
    THEN [ret |-> None, raised |-> TRUE, vendor |-> <<Called("login_url", <<>>, outcome)>>]
    ELSE [ret |-> Some(outcome.value), raised |-> FALSE,
          vendor |-> <<Called("login_url", <<>>, outcome)>>]

\* data.get(key, '')
GetOrEmpty(data, key) == IF key \in DOMAIN data THEN data[key] ELSE ""

\* generate_session that drops the held token when the vendor call fails.
generate_session_forgets(token, request_token, outcome) ==
    LET call == Called("generate_session", <<request_token>>, outcome)
    IN IF outcome.fault \/ "access_token" \notin DOMAIN outcome.value
       THEN [ret |-> Failure(<<"vendor fault">>), raised |-> FALSE,
             vendor |-> <<call>>, access_token |-> ""]
       ELSE [ret |-> [success |-> TRUE,
                      access_token |-> outcome.value.access_token,
                      user_id |-> GetOrEmpty(outcome.value, "user_id"),
                      user_name |-> GetOrEmpty(outcome.value, "user_name"),
                      user_email |-> GetOrEmpty(outcome.value, "user_email"),
                      user_shortname |-> GetOrEmpty(outcome.value, "user_shortname"),
                      broker |-> GetOrEmpty(outcome.value, "broker")],
             raised |-> FALSE, vendor |-> <<call>>,
             access_token |-> outcome.value.access_token]

\* KiteService.generate_session: data['access_token'] raises KeyError when the
\* vendor's data has no such key, before self.access_token is assigned.
generate_session(token, request_token, outcome) ==
    LET call == Called("generate_session", <<request_token>>, outcome)
    IN IF outcome.fault
       THEN [ret |-> Failure(<<outcome.message>>), raised |-> FALSE,
             vendor |-> <<call>>, access_token |-> token]
       ELSE IF "access_token" \notin DOMAIN outcome.value
       THEN [ret |-> Failure(<<"'access_token'">>), raised |-> FALSE,
             vendor |-> <<call>>, access_token |-> token]
       ELSE [ret |-> [success |-> TRUE,
                      access_token |-> outcome.value.access_token,
                      user_id |-> GetOrEmpty(outcome.value, "user_id"),
                      user_name |-> GetOrEmpty(outcome.value, "user_name"),
                      user_email |-> GetOrEmpty(outcome.value, "user_email"),
                      user_shortname |-> GetOrEmpty(outcome.value, "user_shortname"),
                      broker |-> GetOrEmpty(outcome.value, "broker")],
             raised |-> FALSE, vendor |-> <<call>>,
             access_token |-> outcome.value.access_token]

\* str.isdigit() and str(token) on the tokens of the model.
IsDigit(s) == s \in {"1", "2"}

Str(token) == IF token = 1 THEN "1" ELSE IF token = 2 THEN "2" ELSE "0"

\* The first loop of get_quote: a digit string is a token already, any other
\* string is looked up with get_instrument_token and dropped when the lookup
\* yields nothing truthy. outcomes[i] is what the vendor's catalog call
\* delivers if the lookup of instruments[i] makes it.
RECURSIVE quote_tokens(_, _, _)
quote_tokens(instruments, outcomes, st) ==
    IF instruments = <<>> THEN st
    ELSE LET instrument == Head(instruments)
         IN IF IsDigit(instrument)
            THEN quote_tokens(Tail(instruments), Tail(outcomes),
                     [st EXCEPT !.instrument_tokens = Append(@, instrument)])
            ELSE LET r == get_instrument_token(st.cache, instrument, Head(outcomes))
                     found == r.ret # None /\ Val(r.ret) # 0
                 IN quote_tokens(Tail(instruments), Tail(outcomes),
                     [cache |-> r.cache,
                      vendor |-> st.vendor \o r.vendor,
                      instrument_tokens |->
                          IF found THEN Append(st.instrument_tokens, Str(Val(r.ret)))
                          ELSE st.instrument_tokens,
                      symbol_to_token_map |->
                          IF found THEN DictPut(st.symbol_to_token_map, Str(Val(r.ret)), instrument)
                          ELSE st.symbol_to_token_map])

\* KiteService.get_quote. The vendor's quote call delivers a quote for each
\* requested token it knows; outcome.value is the set of tokens it knows.
get_quote(cache, instruments, outcomes, outcome) ==
    LET st == quote_tokens(instruments, outcomes,
                  [cache |-> cache, vendor |-> <<>>, instrument_tokens |-> <<>>,
                   symbol_to_token_map |-> EmptyDict])
        call == Called("quote", st.instrument_tokens, outcome)
    IN IF st.instrument_tokens = <<>>
       THEN [ret |-> Failure(<<"No valid instruments found">>), raised |-> FALSE,
             cache |-> st.cache, vendor |-> st.vendor]
       ELSE IF outcome.fault
       THEN [ret |-> Failure(<<outcome.message>>), raised |-> FALSE,
             cache |-> st.cache, vendor |-> Append(st.vendor, call)]
       ELSE LET quoted == Range(st.instrument_tokens) \cap outcome.value
                symbol(t) == IF t \in DOMAIN st.symbol_to_token_map
                             THEN st.symbol_to_token_map[t] ELSE t
            IN [ret |-> [success |-> TRUE,
                         quotes |-> [k \in {symbol(t) : t \in quoted} |-> "quote"],
                         instrument_tokens |-> st.instrument_tokens,
                         symbol_mapping |-> st.symbol_to_token_map],
                raised |-> FALSE, cache |-> st.cache, vendor |-> Append(st.vendor, call)]

\* ----------------------------------------------------- the adapter's steps

PayloadOutcomes == {Fault, Returns("payload")}

SessionOutcomes == {Fault,
                    Returns([access_token |-> "t1", user_id |-> "u1"]),
                    Returns([user_id |-> "u1"])}

\* The catalogs the vendor delivers in the adapter's specification.
SomeCatalogOutcomes ==
    {Fault, Returns(<<Instrument("A", 1), Instrument("B", 0)>>)}

\* Arguments of get_quote: token strings, symbols of the catalog ("A", and "B"
\* which has no token) and a symbol that is not in it.
QuoteArguments ==
    {<<>>, <<"1">>, <<"A">>, <<"B">>, <<"Z">>, <<"1", "A">>, <<"A", "Z">>, <<"Z", "A">>}

QuoteOutcomes == {Fault, Returns({"1", "2"})}

UnchangedCache ==
    UNCHANGED <<instruments_list, symbol_to_instrument_map, token_to_instrument_map,
                first_fetched>>

SimpleVendorOp ==
    \E op \in SimpleOps, outcome \in PayloadOutcomes :
        LET r == simple_vendor_op(op, <<"args">>, outcome)
        IN /\ last' = Operation(op, <<"args">>, r)
           /\ UnchangedCache
           /\ UNCHANGED <<access_token, filter_vars, web_vars>>

GetLoginUrl ==
    \E outcome \in {Fault, Returns("https://kite/login")} :
        LET r == get_login_url(outcome)
        IN /\ last' = Operation("get_login_url", <<>>, r)
           /\ UnchangedCache
           /\ UNCHANGED <<access_token, filter_vars, web_vars>>

GenerateSession ==
    \E outcome \in SessionOutcomes :
        LET r == generate_session(access_token, "request_token", outcome)
        IN /\ last' = Operation("generate_session", <<"request_token">>, r)
           /\ access_token' = r.access_token
           /\ UnchangedCache
           /\ UNCHANGED <<filter_vars, web_vars>>

GetQuote(catalogs) ==
    \E instruments \in QuoteArguments, outcome \in QuoteOutcomes :
        \E outcomes \in [DOMAIN instruments -> OutcomesNow(catalogs)] :
            LET r == get_quote(Cache, instruments, outcomes, outcome)
            IN /\ SetCache(r)
               /\ last' = Operation("get_quote", <<instruments>>, r)
               /\ UNCHANGED <<access_token, filter_vars, web_vars>>

\* The vendor outcomes of a single historical_data call: a fault, no bar, one bar.
SingleCallOutcomes == {o \in HistoricalOutcomes : o.fault \/ Len(o.value) <= 1}

HistoricalData ==
    \E instrument_token \in Tokens, from_date \in Dates, to_date \in Dates,
       interval \in IntervalInputs, outcome \in SingleCallOutcomes :
        LET r == historical_data(instrument_token, from_date, to_date, interval, outcome)
        IN /\ last' = Operation("historical_data",
                                <<instrument_token, from_date, to_date, interval>>, r)
           /\ UnchangedCache
           /\ UNCHANGED <<access_token, filter_vars, web_vars>>

\* After KiteService(): the cache unset, the access token of the environment.
Init ==
    /\ instruments_list = None
    /\ symbol_to_instrument_map = None
    /\ token_to_instrument_map = None
    /\ access_token \in {"", "t0"}
    /\ first_fetched = None
    /\ last = NoOperation
    /\ FilterIdle
    /\ WebIdle

Next ==
    \/ GetLoginUrl
    \/ GenerateSession
    \/ SimpleVendorOp
    \/ GetInstruments(SomeCatalogOutcomes)
    \/ GetInstrumentToken(SomeCatalogOutcomes)
    \/ GetInstrumentDetails(SomeCatalogOutcomes)
    \/ GetQuote(SomeCatalogOutcomes)
    \/ HistoricalData

\* Every operation of the adapter, called in any order.
Spec == Init /\ [][Next]_vars

\* ------------------------------- Filter1: fetch_instruments_and_historical_data

\* The rows of an instrument file: with symbol and token, without a
\* tradingsymbol, and without an instrument_token.
FileInstruments ==
    {Instrument("A", 1), Instrument("B", 2), Instrument("", 1), Instrument("B", 0)}

InstrumentFiles == SeqsUpTo(FileInstruments, MaxFileInstruments)

\* datetime.now() - timedelta(days=8) and datetime.now(), as "%Y-%m-%d".
start_date == "today-8"

end_date == "today"

\* One row of instrument_history_df: the bar with trading_symbol and
\* instrument_token inserted as the first two columns.
HistoryRow(trading_symbol, instrument_token, bar) ==
    [trading_symbol |-> trading_symbol, instrument_token |-> instrument_token,
     date |-> bar.date, close |-> bar.close]

\* instrument.get('tradingsymbol', 'Unknown')
TradingSymbolOf(instrument) ==
    IF instrument.tradingsymbol = "" THEN "Unknown" ELSE instrument.tradingsymbol

\* What one call of kite_service.historical_data was asked and answered.
Request(index, instrument_token, r) ==
    [index |-> index, instrument_token |-> instrument_token,
     from_date |-> start_date, to_date |-> end_date, interval |-> "day",
     success |-> ~r.raised /\ r.ret.success,
     data |-> IF ~r.raised /\ r.ret.success THEN r.ret.data ELSE <<>>]

\* The loop body with the history inserted at the head of the list.
process_instrument_prepend(frame, outcome) ==
    LET instrument == frame.instruments[frame.i]
        instrument_token == instrument.instrument_token
        trading_symbol == TradingSymbolOf(instrument)
        r == historical_data(instrument_token, start_date, end_date, "day", outcome)
    IN IF instrument_token = 0 THEN [frame EXCEPT !.i = @ + 1]
       ELSE IF ~r.raised /\ r.ret.success /\ r.ret.data # <<>>
       THEN [frame EXCEPT
               !.i = @ + 1,
               !.requests = Append(@, Request(frame.i, instrument_token, r)),
               !.all_instrument_histories =
                   <<[k \in DOMAIN r.ret.data |->
                        HistoryRow(trading_symbol, instrument_token, r.ret.data[k])]>> \o @]
       ELSE [frame EXCEPT
               !.i = @ + 1,
               !.requests = Append(@, Request(frame.i, instrument_token, r))]

\* The loop body with a failed historical_data call made a second time.
process_instrument_retry(frame, outcome) ==
    LET instrument == frame.instruments[frame.i]
        instrument_token == instrument.instrument_token
        trading_symbol == TradingSymbolOf(instrument)
        r == historical_data(instrument_token, start_date, end_date, "day", outcome)
    IN IF instrument_token = 0 THEN [frame EXCEPT !.i = @ + 1]
       ELSE IF ~r.raised /\ r.ret.success /\ r.ret.data # <<>>
       THEN [frame EXCEPT
               !.i = @ + 1,
               !.requests = Append(@, Request(frame.i, instrument_token, r)),
               !.all_instrument_histories =
                   Append(@, [k \in DOMAIN r.ret.data |->
                                HistoryRow(trading_symbol, instrument_token, r.ret.data[k])])]
       ELSE IF ~r.raised /\ r.ret.success
       THEN [frame EXCEPT
               !.i = @ + 1,
               !.requests = Append(@, Request(frame.i, instrument_token, r))]
       ELSE [frame EXCEPT
               !.i = @ + 1,
               !.requests = @ \o <<Request(frame.i, instrument_token, r),
                                   Request(frame.i, instrument_token, r)>>]

\* One iteration of the loop over the instruments: the frame after it, given
\* the outcome of the vendor call if it is made. An instrument without a
\* token is only logged. A failure envelope and an empty series are logged;
\* an exception of the body is caught by the loop's except branch, which
\* continues. A non-empty series is tagged and appended.
process_instrument(frame, outcome) ==
    LET instrument == frame.instruments[frame.i]
        instrument_token == instrument.instrument_token
        trading_symbol == TradingSymbolOf(instrument)
        r == historical_data(instrument_token, start_date, end_date, "day", outcome)
    IN IF instrument_token = 0 THEN [frame EXCEPT !.i = @ + 1]
       ELSE IF ~r.raised /\ r.ret.success /\ r.ret.data # <<>>
       THEN [frame EXCEPT
               !.i = @ + 1,
               !.requests = Append(@, Request(frame.i, instrument_token, r)),
               !.all_instrument_histories =
                   Append(@, [k \in DOMAIN r.ret.data |->
                                HistoryRow(trading_symbol, instrument_token, r.ret.data[k])])]
       ELSE [frame EXCEPT
               !.i = @ + 1,
               !.requests = Append(@, Request(frame.i, instrument_token, r))]

\* pd.concat(tables, ignore_index=True): the rows of the tables, in order.
RECURSIVE Concat(_)
Concat(tables) ==
    IF tables = <<>> THEN <<>> ELSE Head(tables) \o Concat(Tail(tables))

\* The end of fetch_instruments_and_historical_data, after the loop: with a
\* non-empty accumulator the directory "results" is created if absent and the
\* combined table written to output_file_path; to_csv raises when the
\* directory of that path does not exist, and the outer except branch returns
\* the failure envelope. processed_instruments is len("processed_instruments").
combine_and_return(frame, directories, files) ==
    LET summary == [success |-> TRUE,
                    total_instruments_available |-> Len(frame.instruments),
                    processed_instruments |-> 21,
                    instruments |-> "processed_instruments",
                    historical_data |-> "historical_data_results",
                    date_range |-> [from_date |-> start_date, to_date |-> end_date],
                    interval |-> "day", exchange |-> "NSE"]
        made == directories \cup {"results"}
    IN IF frame.all_instrument_histories = <<>>
       THEN [ret |-> summary, dirs |-> directories, files |-> files]
       ELSE IF ParentDir(frame.output_file_path) \notin made
       THEN [ret |-> Failure(<<"Cannot save file into a non-existent directory">>),
             dirs |-> made, files |-> files]
       ELSE [ret |-> summary, dirs |-> made,
             files |-> [files EXCEPT ![frame.output_file_path] =
                           Some(Concat(frame.all_instrument_histories))]]

\* fetch_instruments_and_historical_data up to the loop: the adapter test,
\* then fetch_instruments_list_from_file, whose read_csv raises on a file
\* that is absent (the outer except branch returns the failure envelope).
begin_fetch(service, file, output_file_path) ==
    IF ~service
    THEN [IdleFrame EXCEPT !.pc = "done", !.output_file_path = output_file_path,
                           !.ret = Some(Failure(<<"KiteService not initialized">>))]
    ELSE IF file = None
    THEN [IdleFrame EXCEPT !.pc = "done", !.output_file_path = output_file_path,
                           !.ret = Some(Failure(<<"No such file or directory">>))]
    ELSE [IdleFrame EXCEPT !.pc = "loop", !.output_file_path = output_file_path,
                           !.instruments = Val(file), !.i = 1, !.loaded = TRUE]

FetchBegin ==
    /\ fetch.pc = "idle"
    /\ \E output_file_path \in OutputPaths :
           fetch' = begin_fetch(kite_service, instruments_file, output_file_path)
    /\ UNCHANGED <<adapter_vars, kite_service, instruments_file, dirs, ohlc_files,
                   csv_vars, analysis, web_vars>>

FetchInstrument ==
    /\ fetch.pc = "loop"
    /\ fetch.i <= Len(fetch.instruments)
    /\ \E outcome \in HistoricalOutcomes :
           fetch' = process_instrument(fetch, outcome)
    /\ UNCHANGED <<adapter_vars, kite_service, instruments_file, dirs, ohlc_files,
                   csv_vars, analysis, web_vars>>

FetchCombine ==
    /\ fetch.pc = "loop"
    /\ fetch.i > Len(fetch.instruments)
    /\ LET r == combine_and_return(fetch, dirs, ohlc_files)
       IN /\ fetch' = [fetch EXCEPT !.pc = "done", !.ret = Some(r.ret)]
          /\ dirs' = r.dirs
          /\ ohlc_files' = r.files
    /\ UNCHANGED <<adapter_vars, kite_service, instruments_file, csv_vars, analysis, web_vars>>

\* Filter1() in any environment, an instrument file that is absent or holds
\* up to MaxFileInstruments rows, and any directories.
InitBatch ==
    /\ instruments_list = None
    /\ symbol_to_instrument_map = None
    /\ token_to_instrument_map = None
    /\ access_token = ""
    /\ first_fetched = None
    /\ last = NoOperation
    /\ environ \in Environs
    /\ kite_service = Filter1_init(environ)
    /\ instruments_file \in {None} \cup {Some(l) : l \in InstrumentFiles}
    /\ dirs \in SUBSET {"results", "out"}
    /\ ohlc_files = [path \in OutputPaths |-> None]
    /\ fetch = IdleFrame
    /\ NoCsv
    /\ analysis = NoAnalysis
    /\ NoWeb

NextBatch ==
    \/ FetchBegin
    \/ FetchInstrument
    \/ FetchCombine

\* One call of fetch_instruments_and_historical_data, step by step.
SpecBatch == InitBatch /\ [][NextBatch]_vars

\* ------------------------------- Filter1: get_instruments_data, process_csv

\* float('nan'): what read_csv delivers for an empty cell. It is not a str.
NaN == "float('nan')"

\* An instrument of the catalog with the columns process_csv reads.
CatalogRow(segment, lot_size, name, symbol, token) ==
    [segment |-> segment, lot_size |-> lot_size, name |-> name,
     tradingsymbol |-> symbol, instrument_token |-> token]

\* Instruments the vendor delivers: indices with any lot size and name, and
\* others with lot size 1 or 50 and a name, a whitespace name or no name.
CatalogRows ==
    {CatalogRow("INDICES", 50, "", "NIFTY", 1),
     CatalogRow("INDICES", 1, "Nifty Bank", "BANKNIFTY", 2),
     CatalogRow("NSE", 1, "Acme", "ACME", 3),
     CatalogRow("NSE", 1, " ", "BLANK", 4),
     CatalogRow("NSE", 1, "", "NONAME", 5),
     CatalogRow("NSE", 50, "Acme", "ACMELOT", 6),
     CatalogRow("NSE", 50, "", "NONAMELOT", 7)}

Catalogs == SeqsUpTo(CatalogRows, MaxCatalogRows)

\* name.strip() on the names above.
strip(name) == IF name = " " THEN "" ELSE name

\* A cell as to_csv writes it: a missing value becomes the empty cell.
WriteCell(value) == IF value = NaN THEN "" ELSE value

\* A cell as read_csv parses it: the empty cell becomes NaN.
ReadCell(cell) == IF cell = "" THEN NaN ELSE cell

\* DataFrame(instruments).to_csv(path, index=False): the data rows of the
\* file. A frame built from an empty list has no columns, and the file
\* holds no header and no rows.
to_csv(instruments) ==
    [k \in DOMAIN instruments |->
        [instruments[k] EXCEPT !.segment = WriteCell(@), !.name = WriteCell(@),
                               !.tradingsymbol = WriteCell(@)]]

\* pd.read_csv(path).to_dict('records'): EmptyDataError on a file without
\* columns, else one dict per data row.
read_csv(file) ==
    IF file = <<>> THEN [raised |-> TRUE, instruments |-> <<>>]
    ELSE [raised |-> FALSE,
          instruments |-> [k \in DOMAIN file |->
              [file[k] EXCEPT !.segment = ReadCell(@), !.name = ReadCell(@),
                              !.tradingsymbol = ReadCell(@)]]]

\* What a catalog call of Filter1 did: what it returned or that it raised,
\* the vendor calls it made, the cache, files and directories after it, and
\* for process_csv the two tables it built.
CsvCall(op, ret, raised, vendor, cache, snapshot, directories) ==
    [op |-> op, ret |-> ret, raised |-> raised, vendor |-> vendor, cache |-> cache,
     snapshot |-> snapshot, dirs |-> directories]

InstrumentsDir == {"results", "results/instruments"}

\* Filter1.get_instruments_data. With the snapshot file present it is read
\* (an exception of read_csv propagates: there is no try). Without it,
\* kite_service.get_instruments(exchange='NSE') is called: on None it raises
\* AttributeError, on a failure envelope the ['instruments'] lookup raises
\* KeyError; else the directory is created, the file saved and the
\* adapter's envelope returned.
get_instruments_data(service, cache, snapshot, directories, outcome) ==
    IF snapshot # None
    THEN LET loaded == read_csv(Val(snapshot))
         IN IF loaded.raised
            THEN CsvCall("get_instruments_data", None, TRUE, <<>>, cache,
                         snapshot, directories)
            ELSE CsvCall("get_instruments_data",
                         Some([success |-> TRUE, instruments |-> loaded.instruments]),
                         FALSE, <<>>, cache, snapshot, directories)
    ELSE IF ~service
    THEN CsvCall("get_instruments_data", None, TRUE, <<>>, cache, snapshot, directories)
    ELSE LET r == get_instruments(cache, "NSE", outcome)
         IN IF ~r.ret.success
            THEN CsvCall("get_instruments_data", None, TRUE, r.vendor, r.cache,
                         snapshot, directories)
            ELSE CsvCall("get_instruments_data", Some(r.ret), FALSE, r.vendor, r.cache,
                         Some(to_csv(r.ret.instruments)),
                         directories \cup InstrumentsDir)

\* The test of the loop body with the lot size looked at before the segment.
classify_lot_size_first(instrument) ==
    IF instrument.lot_size # 1 THEN "skipped"
    ELSE IF instrument.segment = "INDICES" THEN "indices"
    ELSE IF instrument.name = NaN THEN "error"
    ELSE IF strip(instrument.name) # "" THEN "other"
    ELSE "skipped"

\* The test of the loop body without the test of the name.
classify_any_name(instrument) ==
    IF instrument.segment = "INDICES" THEN "indices"
    ELSE IF instrument.lot_size = 1 THEN "other"
    ELSE "skipped"

\* The body of the loop of process_csv: where the instrument goes. The
\* segment is tested first; otherwise lot_size == 1 and name.strip() != '',
\* where name.strip() is evaluated only with lot_size == 1 and raises
\* AttributeError on NaN, which the except branch of the body catches.
classify(instrument) ==
    IF instrument.segment = "INDICES" THEN "indices"
    ELSE IF instrument.lot_size = 1
    THEN IF instrument.name = NaN THEN "error"
         ELSE IF strip(instrument.name) # "" THEN "other"
         ELSE "skipped"
    ELSE "skipped"

\* The loop with each row put in front of its table.
RECURSIVE separate_prepend(_, _, _)
separate_prepend(instruments, indices_df, other_instruments_df) ==
    IF instruments = <<>>
    THEN [indices_df |-> indices_df, other_instruments_df |-> other_instruments_df]
    ELSE LET instrument == Head(instruments)
             sector == classify(instrument)
         IN separate_prepend(Tail(instruments),
                IF sector = "indices" THEN <<instrument>> \o indices_df ELSE indices_df,
                IF sector = "other" THEN <<instrument>> \o other_instruments_df
                ELSE other_instruments_df)

\* The loop of process_csv over the loaded instruments: a row is assigned to
\* an empty table or concatenated at the end of a non-empty one.
RECURSIVE separate(_, _, _)
separate(instruments, indices_df, other_instruments_df) ==
    IF instruments = <<>>
    THEN [indices_df |-> indices_df, other_instruments_df |-> other_instruments_df]
    ELSE LET instrument == Head(instruments)
             sector == classify(instrument)
         IN separate(Tail(instruments),
                IF sector = "indices" THEN Append(indices_df, instrument) ELSE indices_df,
                IF sector = "other" THEN Append(other_instruments_df, instrument)
                ELSE other_instruments_df)

\* process_csv saving both tables whether empty or not.
process_csv_saves_empty(snapshot, indices, other) ==
    IF snapshot = None
    THEN [ret |-> None, raised |-> FALSE, instruments |-> <<>>, indices_df |-> <<>>,
          other_instruments_df |-> <<>>, indices_csv |-> indices, other_csv |-> other]
    ELSE LET loaded == read_csv(Val(snapshot))
             tables == separate(loaded.instruments, <<>>, <<>>)
         IN IF loaded.raised
            THEN [ret |-> None, raised |-> TRUE, instruments |-> <<>>,
                  indices_df |-> <<>>, other_instruments_df |-> <<>>,
                  indices_csv |-> indices, other_csv |-> other]
            ELSE [ret |-> Some([success |-> TRUE, instruments |-> loaded.instruments]),
                  raised |-> FALSE, instruments |-> loaded.instruments,
                  indices_df |-> tables.indices_df,
                  other_instruments_df |-> tables.other_instruments_df,
                  indices_csv |-> Some(to_csv(tables.indices_df)),
                  other_csv |-> Some(to_csv(tables.other_instruments_df))]

\* Filter1.process_csv: without the snapshot file it returns None; with it,
\* the file is read (an exception of read_csv propagates), the instruments
\* are separated and each non-empty table is saved.
process_csv(snapshot, indices, other) ==
    IF snapshot = None
    THEN [ret |-> None, raised |-> FALSE, instruments |-> <<>>, indices_df |-> <<>>,
          other_instruments_df |-> <<>>, indices_csv |-> indices, other_csv |-> other]
    ELSE LET loaded == read_csv(Val(snapshot))
             tables == separate(loaded.instruments, <<>>, <<>>)
         IN IF loaded.raised
            THEN [ret |-> None, raised |-> TRUE, instruments |-> <<>>,
                  indices_df |-> <<>>, other_instruments_df |-> <<>>,
                  indices_csv |-> indices, other_csv |-> other]
            ELSE [ret |-> Some([success |-> TRUE, instruments |-> loaded.instruments]),
                  raised |-> FALSE, instruments |-> loaded.instruments,
                  indices_df |-> tables.indices_df,
                  other_instruments_df |-> tables.other_instruments_df,
                  indices_csv |-> IF tables.indices_df # <<>>
                                  THEN Some(to_csv(tables.indices_df)) ELSE indices,
                  other_csv |-> IF tables.other_instruments_df # <<>>
                                THEN Some(to_csv(tables.other_instruments_df)) ELSE other]

\* What the vendor's instruments call may deliver now: any catalog while it
\* can still be called, one catalog that differs from every snapshot after.
SnapshotOutcomes ==
    IF snapshot_csv = None /\ instruments_list = None
    THEN {Fault} \cup {Returns(c) : c \in Catalogs}
    ELSE {Fault, Returns(<<CatalogRow("NSE", 1, "Changed", "CHANGED", 9)>>)}

GetInstrumentsData ==
    \E outcome \in SnapshotOutcomes :
        LET r == get_instruments_data(kite_service, Cache, snapshot_csv, dirs, outcome)
        IN /\ instruments_list' = r.cache.list
           /\ symbol_to_instrument_map' = r.cache.smap
           /\ token_to_instrument_map' = r.cache.tmap
           /\ snapshot_csv' = r.snapshot
           /\ dirs' = r.dirs
           /\ csv_last' = [op |-> r.op, ret |-> r.ret, raised |-> r.raised,
                           vendor |-> r.vendor, instruments |-> <<>>,
                           indices_df |-> <<>>, other_instruments_df |-> <<>>]
           /\ UNCHANGED <<access_token, first_fetched, last, kite_service, instruments_file,
                          ohlc_files, fetch, indices_csv, other_csv, analysis, web_vars>>

ProcessCsv ==
    LET r == process_csv(snapshot_csv, indices_csv, other_csv)
    IN /\ indices_csv' = r.indices_csv
       /\ other_csv' = r.other_csv
       /\ csv_last' = [op |-> "process_csv", ret |-> r.ret, raised |-> r.raised,
                       vendor |-> <<>>, instruments |-> r.instruments,
                       indices_df |-> r.indices_df,
                       other_instruments_df |-> r.other_instruments_df]
       /\ UNCHANGED <<adapter_vars, kite_service, instruments_file, dirs, ohlc_files,
                      fetch, snapshot_csv, analysis, web_vars>>

\* The partition files as an earlier run over another catalog left them.
StaleIndices == to_csv(<<CatalogRow("INDICES", 1, "Old Index", "OLDINDEX", 8)>>)

StaleOthers == to_csv(<<CatalogRow("NSE", 1, "Old", "OLD", 9)>>)

\* Filter1() in any environment, the snapshot file absent or as an earlier
\* run saved it, and each partition file absent or left by an earlier run.
InitSnapshot ==
    /\ instruments_list = None
    /\ symbol_to_instrument_map = None
    /\ token_to_instrument_map = None
    /\ access_token = ""
    /\ first_fetched = None
    /\ last = NoOperation
    /\ environ \in Environs
    /\ kite_service = Filter1_init(environ)
    /\ instruments_file = None
    /\ snapshot_csv \in {None} \cup {Some(to_csv(c)) : c \in Catalogs}
    /\ dirs \in IF snapshot_csv = None THEN {{}, {"results"}, InstrumentsDir}
                ELSE {InstrumentsDir}
    /\ ohlc_files = [path \in OutputPaths |-> None]
    /\ fetch = IdleFrame
    /\ indices_csv \in IF dirs = InstrumentsDir THEN {None, Some(StaleIndices)}
                       ELSE {None}
    /\ other_csv \in IF dirs = InstrumentsDir THEN {None, Some(StaleOthers)}
                     ELSE {None}
    /\ csv_last = NoCsvCall
    /\ analysis = NoAnalysis
    /\ NoWeb

NextSnapshot ==
    \/ GetInstrumentsData
    \/ ProcessCsv

\* Any sequence of get_instruments_data and process_csv calls.
SpecSnapshot == InitSnapshot /\ [][NextSnapshot]_vars

\* ----------------------------------------- Filter1: analyze_historical_data

\* A bar as analyze_historical_data reads it: d.get('close') and
\* d.get('volume'), each None when the key is missing or the value null.
AnalysisBar(close, volume) == [close |-> close, volume |-> volume]

\* Closes that are null, zero, negative and positive; volumes null, zero
\* and positive.
AnalysisBars ==
    {AnalysisBar(close, Some(10)) : close \in {None, Some(0), Some(0 - 50), Some(90),
                                              Some(100), Some(105), Some(110)}}
    \cup {AnalysisBar(Some(100), None), AnalysisBar(Some(100), Some(0))}

\* One element of historical_data_results.
Result(trading_symbol, instrument_token, data) ==
    [trading_symbol |-> trading_symbol, instrument_token |-> instrument_token,
     historical_data |-> data]

\* Collections of one instrument with a series of up to MaxAnalysisBars
\* bars, and of up to MaxResults instruments with at most one bar each.
Collections ==
    {<<Result("A", 1, Some(series))>> : series \in SeqsUpTo(AnalysisBars, MaxAnalysisBars)}
    \cup SeqsUpTo({Result(instrument.tradingsymbol, instrument.instrument_token, data) :
                      instrument \in {Instrument("A", 1), Instrument("B", 2)},
                      data \in {None} \cup {Some(series) : series \in SeqsUpTo(AnalysisBars, 1)}},
                  MaxResults)

\* Python truth of d.get(key): a value that is present and not zero.
Truthy(value) == value # None /\ Val(value) # 0

\* The closes with only null closes left out.
RECURSIVE prices_keep_zero(_)
prices_keep_zero(data) ==
    IF data = <<>> THEN <<>>
    ELSE (IF Head(data).close # None THEN <<Val(Head(data).close)>> ELSE <<>>)
         \o prices_keep_zero(Tail(data))

\* [d.get('close', 0) for d in data if d.get('close')]
RECURSIVE prices(_)
prices(data) ==
    IF data = <<>> THEN <<>>
    ELSE (IF Truthy(Head(data).close) THEN <<Val(Head(data).close)>> ELSE <<>>)
         \o prices(Tail(data))

\* [d.get('volume', 0) for d in data if d.get('volume')]
RECURSIVE volumes(_)
volumes(data) ==
    IF data = <<>> THEN <<>>
    ELSE (IF Truthy(Head(data).volume) THEN <<Val(Head(data).volume)>> ELSE <<>>)
         \o volumes(Tail(data))

RECURSIVE sum(_)
sum(numbers) == IF numbers = <<>> THEN 0 ELSE Head(numbers) + sum(Tail(numbers))

min(numbers) == CHOOSE x \in Range(numbers) : \A y \in Range(numbers) : x <= y

max(numbers) == CHOOSE x \in Range(numbers) : \A y \in Range(numbers) : y <= x

Abs(x) == IF x < 0 THEN 0 - x ELSE x

RECURSIVE GCD(_, _)
GCD(a, b) == IF b = 0 THEN a ELSE GCD(b, a % b)

\* The quotient n / d (d # 0) as a fraction in lowest terms, d positive.
Quotient(n, d) ==
    LET g == GCD(Abs(n), Abs(d))
        sign == IF d < 0 THEN 0 - 1 ELSE 1
    IN [num |-> sign * (n \div g), den |-> sign * (d \div g)]

\* The percentage without the test of first_price.
price_change_percent_unguarded(price_change, first_price) ==
    Quotient(price_change * 100, first_price)

\* (price_change / first_price * 100) if first_price > 0 else 0
price_change_percent(price_change, first_price) ==
    IF first_price > 0 THEN Quotient(price_change * 100, first_price) ELSE Quotient(0, 1)

\* sum((p - avg_price) ** 2 for p in prices) / len(prices), where avg_price
\* is sum(prices) / len(prices); volatility is its square root.
RECURSIVE squares(_, _, _)
squares(numbers, total, n) ==
    IF numbers = <<>> THEN 0
    ELSE (n * Head(numbers) - total) * (n * Head(numbers) - total)
         + squares(Tail(numbers), total, n)

\* The variance with the divisor N - 1 (0 for a single price).
variance_of_sample(numbers) ==
    IF Len(numbers) = 1 THEN Quotient(0, 1)
    ELSE Quotient(squares(numbers, sum(numbers), Len(numbers)),
                  Len(numbers) * Len(numbers) * (Len(numbers) - 1))

variance(numbers) ==
    Quotient(squares(numbers, sum(numbers), Len(numbers)),
             Len(numbers) * Len(numbers) * Len(numbers))

\* The analysis dict of one instrument with at least one price.
Analysis(result, data, closes, traded) ==
    [trading_symbol |-> result.trading_symbol,
     instrument_token |-> result.instrument_token,
     data_points |-> Len(data),
     price_analysis |->
         [first_price |-> closes[1],
          last_price |-> closes[Len(closes)],
          min_price |-> min(closes),
          max_price |-> max(closes),
          avg_price |-> Quotient(sum(closes), Len(closes)),
          price_change |-> closes[Len(closes)] - closes[1],
          price_change_percent |->
              price_change_percent(closes[Len(closes)] - closes[1], closes[1]),
          variance |-> variance(closes)],
     volume_analysis |->
         [avg_volume |-> IF traded # <<>> THEN Quotient(sum(traded), Len(traded))
                         ELSE Quotient(0, 1),
          max_volume |-> IF traded # <<>> THEN max(traded) ELSE 0,
          min_volume |-> IF traded # <<>> THEN min(traded) ELSE 0]]

\* The loop of analyze_historical_data: the records of the instruments that
\* have a series with at least one price, in the order of the collection.
RECURSIVE analysis_results(_)
analysis_results(results) ==
    IF results = <<>> THEN <<>>
    ELSE LET result == Head(results)
             data == Val(result.historical_data)
         IN (IF result.historical_data = None THEN <<>>
             ELSE IF data = <<>> THEN <<>>
             ELSE IF prices(data) = <<>> THEN <<>>
             ELSE <<Analysis(result, data, prices(data), volumes(data))>>)
            \o analysis_results(Tail(results))

\* analyze_historical_data that fails when no record was produced.
analyze_historical_data_needs_records(historical_data_results) ==
    IF analysis_results(historical_data_results) = <<>>
    THEN Failure(<<"No historical data to analyze">>)
    ELSE [success |-> TRUE,
          analysis_results |-> analysis_results(historical_data_results),
          total_analyzed |-> Len(analysis_results(historical_data_results))]

\* Filter1.analyze_historical_data.
analyze_historical_data(historical_data_results) ==
    IF historical_data_results = <<>>
    THEN Failure(<<"No historical data to analyze">>)
    ELSE [success |-> TRUE,
          analysis_results |-> analysis_results(historical_data_results),
          total_analyzed |-> Len(analysis_results(historical_data_results))]

Analyze ==
    /\ analysis.ret = None
    /\ analysis' = [analysis EXCEPT
                      !.ret = Some(analyze_historical_data(analysis.historical_data_results))]
    /\ UNCHANGED <<adapter_vars, kite_service, instruments_file, dirs, ohlc_files, fetch,
                   csv_vars, web_vars>>

\* analyze_historical_data about to be called on any collection.
InitAnalysis ==
    /\ instruments_list = None
    /\ symbol_to_instrument_map = None
    /\ token_to_instrument_map = None
    /\ access_token = ""
    /\ first_fetched = None
    /\ last = NoOperation
    /\ kite_service = TRUE
    /\ instruments_file = None
    /\ dirs = {}
    /\ ohlc_files = [path \in OutputPaths |-> None]
    /\ fetch = IdleFrame
    /\ NoCsv
    /\ analysis \in {[historical_data_results |-> collection, ret |-> None] :
                        collection \in Collections}
    /\ WebIdle

NextAnalysis == Analyze

SpecAnalysis == InitAnalysis /\ [][NextAnalysis]_vars

\* ------------------------------------------------------------- properties

\* Position of the last instrument of the list carrying the key.
LastWithSymbol(l, k) ==
    CHOOSE i \in DOMAIN l :
        /\ l[i].tradingsymbol = k
        /\ \A j \in DOMAIN l : l[j].tradingsymbol = k => j <= i

LastWithToken(l, k) ==
    CHOOSE i \in DOMAIN l :
        /\ l[i].instrument_token = k
        /\ \A j \in DOMAIN l : l[j].instrument_token = k => j <= i

\* C1: once a get_instruments call has succeeded, every later get_instruments
\* call, for any exchange and whatever the vendor would now deliver, returns
\* success with the first-fetched list and makes no vendor call; the cached
\* list stays the first-fetched one.
C1_Memoized ==
    [][(first_fetched # None /\ last'.op = "get_instruments")
         => /\ last'.ret.success
            /\ last'.ret.instruments = Val(first_fetched)
            /\ last'.vendor = <<>>
            /\ instruments_list' = first_fetched
            /\ first_fetched' = first_fetched]_vars

\* C1 witness: a get_instruments call served from the cache, for an exchange
\* other than the default, after a fetch of a non-empty list.
C1_Witness ==
    /\ last.op = "get_instruments"
    /\ last.args = <<"BSE">>
    /\ last.vendor = <<>>
    /\ first_fetched # None
    /\ Len(Val(first_fetched)) = MaxInstruments
    /\ last.ret.instruments = Val(first_fetched)

\* C2 as stated: whenever the cached list is set, every instrument's
\* tradingsymbol and instrument_token are keys of the cached maps, each key
\* maps to the last instrument carrying it, and the maps hold nothing else.
C2_EverySymbolAndTokenIsKey ==
    instruments_list # None =>
        /\ symbol_to_instrument_map # None
        /\ token_to_instrument_map # None
        /\ LET l == Val(instruments_list)
               smap == Val(symbol_to_instrument_map)
               tmap == Val(token_to_instrument_map)
           IN /\ DOMAIN smap = {l[i].tradingsymbol : i \in DOMAIN l}
              /\ DOMAIN tmap = {l[i].instrument_token : i \in DOMAIN l}
              /\ \A k \in DOMAIN smap : smap[k] = l[LastWithSymbol(l, k)]
              /\ \A k \in DOMAIN tmap : tmap[k] = l[LastWithToken(l, k)]

\* C2 (amended): whenever the cached list is set, both maps are set, the keys
\* of the symbol map are exactly the non-empty tradingsymbols of the list and
\* the keys of the token map exactly its non-zero instrument_tokens (an
\* instrument with an empty or missing symbol, or a zero or missing token, is
\* no key), and each key maps to the last instrument of the list carrying it.
C2_MapsDerivedFromList ==
    instruments_list # None =>
        /\ symbol_to_instrument_map # None
        /\ token_to_instrument_map # None
        /\ LET l == Val(instruments_list)
               smap == Val(symbol_to_instrument_map)
               tmap == Val(token_to_instrument_map)
           IN /\ DOMAIN smap = {l[i].tradingsymbol : i \in DOMAIN l} \ {""}
              /\ DOMAIN tmap = {l[i].instrument_token : i \in DOMAIN l} \ {0}
              /\ \A k \in DOMAIN smap : smap[k] = l[LastWithSymbol(l, k)]
              /\ \A k \in DOMAIN tmap : tmap[k] = l[LastWithToken(l, k)]

\* C2 witness: a cached list in which a symbol repeats with different tokens,
\* so that the later instrument has overwritten the earlier one.
C2_Witness ==
    /\ instruments_list # None
    /\ LET l == Val(instruments_list)
       IN /\ Len(l) = 2
          /\ l[1].tradingsymbol = "A" /\ l[2].tradingsymbol = "A"
          /\ l[1].instrument_token = 1 /\ l[2].instrument_token = 2
          /\ Val(symbol_to_instrument_map)["A"] = l[2]

\* C3: a get_instruments call that fails returns {success: false, error} and
\* leaves the list and both maps unset, and a get_instruments call on the
\* unset cache makes the vendor call (so the call after a failure fetches again).
C3_FailureLeavesCacheUnset ==
    [][(last'.op = "get_instruments")
         => /\ ~last'.ret.success =>
                  /\ DOMAIN last'.ret = {"success", "error"}
                  /\ instruments_list = None
                  /\ instruments_list' = None
                  /\ symbol_to_instrument_map' = None
                  /\ token_to_instrument_map' = None
            /\ instruments_list = None => Len(last'.vendor) = 1]_vars

\* C3 witness: a failed get_instruments call, the cache still unset after it.
C3_Witness ==
    /\ last.op = "get_instruments"
    /\ ~last.ret.success
    /\ last.ret.error = <<"vendor fault">>
    /\ last.vendor = <<<<"instruments", "NSE", "fault">>>>
    /\ instruments_list = None

\* The interval values the documentation of historical_data enumerates.
DocumentedIntervals ==
    {"minute", "3minute", "5minute", "10minute", "15minute", "30minute", "60minute", "day"}

\* C4: a historical_data call with the token absent, a date absent, or the
\* interval absent, empty or outside the valid set returns a failure envelope
\* and never invokes the vendor's historical-data call.
C4_InvalidInputNeverReachesVendor ==
    last.op = "historical_data" =>
        LET instrument_token == last.args[1]
            from_date == last.args[2]
            to_date == last.args[3]
            interval == last.args[4]
        IN (\/ instrument_token = 0
            \/ from_date = ""
            \/ to_date = ""
            \/ interval = ""
            \/ interval \notin DocumentedIntervals)
           => /\ ~last.raised
              /\ DOMAIN last.ret = {"success", "error"}
              /\ ~last.ret.success
              /\ last.vendor = <<>>

\* C4 witness: a call with only the to_date absent was refused.
C4_Witness ==
    /\ last.op = "historical_data"
    /\ last.args = <<1, "2024-01-01", "", "day">>
    /\ ~last.ret.success
    /\ last.vendor = <<>>

\* C5: historical_data checks token presence, then the date pair, then
\* interval presence, then interval membership, and the error returned is the
\* dedicated message of the first check that fails.
C5_FirstFailingCheckDecidesError ==
    last.op = "historical_data" =>
        LET instrument_token == last.args[1]
            from_date == last.args[2]
            to_date == last.args[3]
            interval == last.args[4]
        IN /\ instrument_token = 0
                => /\ ~last.ret.success
                   /\ last.ret.error = <<"instrument_token is required">>
           /\ (instrument_token # 0 /\ (from_date = "" \/ to_date = ""))
                => /\ ~last.ret.success
                   /\ last.ret.error = <<"from_date and to_date are required">>
           /\ (instrument_token # 0 /\ from_date # "" /\ to_date # "" /\ interval = "")
                => /\ ~last.ret.success
                   /\ last.ret.error = <<"interval is required">>
           /\ (instrument_token # 0 /\ from_date # "" /\ to_date # "" /\ interval # ""
                 /\ interval \notin DocumentedIntervals)
                => /\ ~last.ret.success
                   /\ Head(last.ret.error) = "Invalid interval. Valid values: "

\* C5 witness: a call failing the date check and both interval checks at
\* once got the message of the date check.
C5_Witness ==
    /\ last.op = "historical_data"
    /\ last.args = <<2, "", "2024-01-01", "">>
    /\ last.ret.error = <<"from_date and to_date are required">>

\* C6: with token and dates present, every one of the eight documented
\* intervals passes validation (the vendor call is made, and its bars are
\* returned in a success envelope), and every other non-empty interval fails
\* with a message that lists all eight valid values.
C6_IntervalMembership ==
    (/\ last.op = "historical_data"
     /\ last.args[1] # 0 /\ last.args[2] # "" /\ last.args[3] # "")
    => LET interval == last.args[4]
       IN /\ interval \in DocumentedIntervals
               => /\ Len(last.vendor) = 1
                  /\ last.vendor[1][3] = "ok"
                       => last.ret.success /\ last.ret.interval = interval
          /\ (interval # "" /\ interval \notin DocumentedIntervals)
               => /\ ~last.ret.success
                  /\ last.vendor = <<>>
                  /\ DocumentedIntervals \subseteq Range(last.ret.error)

\* C6 witness: the interval "week" was refused with the eight values listed
\* (the heading, eight values and seven separators).
C6_Witness ==
    /\ last.op = "historical_data"
    /\ last.args = <<1, "2024-01-01", "2024-01-01", "week">>
    /\ ~last.ret.success
    /\ Len(last.ret.error) = 16

\* The operations that make a vendor call of their own.
VendorOps ==
    SimpleOps \cup {"get_login_url", "generate_session", "get_instruments",
                    "get_quote", "historical_data"}

Faulted(calls) == {i \in DOMAIN calls : calls[i][3] = "fault"}

\* C7 as stated: for every vendor operation, get_login_url included, a fault
\* of a vendor call is not propagated but returned as {success: false, error},
\* and an invocation makes at most one vendor call.
C7_EveryOperationReturnsEnvelope ==
    last.op \in VendorOps =>
        /\ Len(last.vendor) <= 1
        /\ Faulted(last.vendor) # {}
             => /\ ~last.raised
                /\ ~last.ret.success
                /\ DOMAIN last.ret = {"success", "error"}

\* The calls an operation made to its own vendor function.
OwnCalls == {i \in DOMAIN last.vendor : last.vendor[i][1] = VendorFn(last.op)}

\* C7 (amended): every vendor operation other than get_login_url never
\* propagates a fault: it makes its own vendor call at most once, and when that
\* call faults it returns {success: false, error: <the fault's message>}.
\* get_login_url has no fault handling: it makes its one vendor call and a fault
\* of it propagates to the caller. The symbol lookups of get_quote may make the
\* catalog call besides, once per symbol while the catalog is unset; a fault of
\* those is swallowed and is no failure of get_quote.
C7_FaultsBecomeEnvelopes ==
    /\ last.op \in VendorOps \ {"get_login_url"}
         => /\ ~last.raised
            /\ Cardinality(OwnCalls) <= 1
            /\ \A i \in OwnCalls :
                   last.vendor[i][3] = "fault"
                     => /\ ~last.ret.success
                        /\ DOMAIN last.ret = {"success", "error"}
                        /\ last.ret.error = <<Fault.message>>
            /\ \A i \in DOMAIN last.vendor :
                   i \notin OwnCalls
                     => last.op = "get_quote" /\ last.vendor[i][1] = "instruments"
            /\ last.op # "get_quote" => Len(last.vendor) <= 1
    /\ last.op = "get_login_url"
         => /\ Len(last.vendor) = 1
            /\ last.raised <=> last.vendor[1][3] = "fault"

\* C7 witness: a faulting vendor call of historical_data came back as a
\* failure envelope.
C7_Witness ==
    /\ last.op = "historical_data"
    /\ last.vendor = <<<<"historical_data", <<1, "2024-01-01", "2024-01-01", "day">>, "fault">>>>
    /\ ~last.raised
    /\ last.ret = Failure(<<"vendor fault">>)

\* ---------------------------------------- properties of the batch fetch

\* The call of fetch_instruments_and_historical_data has loaded the file.
Loaded == fetch.pc \in {"loop", "done"} /\ fetch.loaded

\* The positions and tokens of the first n instruments that have a token.
RECURSIVE TokenBearing(_, _)
TokenBearing(instruments, n) ==
    IF n = 0 THEN <<>>
    ELSE IF instruments[n].instrument_token # 0
    THEN Append(TokenBearing(instruments, n - 1), <<n, instruments[n].instrument_token>>)
    ELSE TokenBearing(instruments, n - 1)

RECURSIVE ExpectedRows(_, _, _)
ExpectedRows(instruments, requests, n) ==
    IF n = 0 THEN <<>>
    ELSE LET request == requests[n]
             owner == instruments[request.index]
         IN ExpectedRows(instruments, requests, n - 1) \o
            (IF request.success
             THEN [k \in DOMAIN request.data |->
                     [trading_symbol |-> IF owner.tradingsymbol = "" THEN "Unknown"
                                         ELSE owner.tradingsymbol,
                      instrument_token |-> owner.instrument_token,
                      date |-> request.data[k].date,
                      close |-> request.data[k].close]]
             ELSE <<>>)

\* C9: a combined table that has been written holds exactly the bars of the
\* instruments whose call succeeded with a non-empty series, instruments in
\* list order and bars in delivered order, each row under the symbol and
\* token of its instrument; and it is written only to the output path.
C9_CombinedTableIsSuccessfulBars ==
    \A path \in OutputPaths :
        ohlc_files[path] # None =>
            /\ Loaded /\ fetch.pc = "done"
            /\ path = fetch.output_file_path
            /\ Val(ohlc_files[path]) # <<>>
            /\ Val(ohlc_files[path]) =
                   ExpectedRows(fetch.instruments, fetch.requests, Len(fetch.requests))

\* One instrument faulting, one with an empty series, one with 2 bars: the
\* table has exactly 2 rows, both under the third instrument.
C9_Witness ==
    /\ fetch.pc = "done"
    /\ fetch.instruments = <<Instrument("A", 1), Instrument("", 1), Instrument("B", 2)>>
    /\ Len(fetch.requests) = 3
    /\ ~fetch.requests[1].success
    /\ fetch.requests[2].success /\ fetch.requests[2].data = <<>>
    /\ ohlc_files[fetch.output_file_path] # None
    /\ LET table == Val(ohlc_files[fetch.output_file_path])
       IN /\ Len(table) = 2
          /\ \A k \in 1..2 : /\ table[k].trading_symbol = "B"
                             /\ table[k].instrument_token = 2
                             /\ table[k].date = k

\* C10: once the instrument file was loaded the call returns success: true,
\* however many calls failed, and with an empty accumulator no file is written.
C10_SuccessWheneverLoaded ==
    (Loaded /\ fetch.pc = "done") =>
        /\ Val(fetch.ret).success
        /\ fetch.all_instrument_histories = <<>> =>
               \A path \in OutputPaths : ohlc_files[path] = None

\* Every call failed or gave an empty series: no file, success: true.
C10_WitnessEmptyBatch ==
    /\ Loaded /\ fetch.pc = "done"
    /\ Len(fetch.requests) >= 2
    /\ \E k \in DOMAIN fetch.requests : ~fetch.requests[k].success
    /\ \E k \in DOMAIN fetch.requests :
           fetch.requests[k].success /\ fetch.requests[k].data = <<>>
    /\ fetch.all_instrument_histories = <<>>
    /\ \A path \in OutputPaths : ohlc_files[path] = None
    /\ Val(fetch.ret).success

\* ----------------------------------------------- properties of process_csv

\* process_csv has read the snapshot and returned.
Separated == csv_last.op = "process_csv" /\ csv_last.ret # None

IsIndex(instrument) == instrument.segment = "INDICES"

\* The name is missing, empty or whitespace.
BlankName(instrument) ==
    instrument.name = NaN \/ instrument.name = "" \/ instrument.name = " "

IsTradable(instrument) ==
    ~IsIndex(instrument) /\ instrument.lot_size = 1 /\ ~BlankName(instrument)

\* The rows of a saved table; none when the file is absent.
SavedRows(file) == IF file = None THEN <<>> ELSE Val(file)

\* C11: every loaded instrument whose segment is "INDICES" is in the index
\* table, and in the saved index file, whatever its lot_size and name.
C11_IndicesAlwaysInIndexTable ==
    Separated =>
        \A k \in DOMAIN csv_last.instruments :
            IsIndex(csv_last.instruments[k]) =>
                /\ \E j \in DOMAIN csv_last.indices_df :
                       csv_last.indices_df[j] = csv_last.instruments[k]
                /\ indices_csv # None
                /\ \E j \in DOMAIN Val(indices_csv) :
                       Val(indices_csv)[j] = to_csv(<<csv_last.instruments[k]>>)[1]

\* An index instrument with lot_size 50 and no name is in the index table.
C11_Witness ==
    /\ Separated
    /\ \E j \in DOMAIN csv_last.indices_df :
           /\ csv_last.indices_df[j].lot_size = 50
           /\ csv_last.indices_df[j].name = NaN
    /\ indices_csv # None

\* The instrument is in neither table and in neither saved file.
InNoOutput(instrument) ==
    /\ \A j \in DOMAIN csv_last.indices_df : csv_last.indices_df[j] # instrument
    /\ \A j \in DOMAIN csv_last.other_instruments_df :
           csv_last.other_instruments_df[j] # instrument
    /\ \A j \in DOMAIN SavedRows(indices_csv) :
           SavedRows(indices_csv)[j] # to_csv(<<instrument>>)[1]
    /\ \A j \in DOMAIN SavedRows(other_csv) :
           SavedRows(other_csv)[j] # to_csv(<<instrument>>)[1]

\* C12 as stated: an instrument with lot_size != 1 or a blank name is in
\* neither output.
C12_DroppedFromBothOutputs ==
    Separated =>
        \A k \in DOMAIN csv_last.instruments :
            (csv_last.instruments[k].lot_size # 1 \/ BlankName(csv_last.instruments[k]))
                => InNoOutput(csv_last.instruments[k])

\* C12: an instrument whose segment is not "INDICES" and that has
\* lot_size != 1 or a blank name is in neither output; an instrument in the
\* tradable output has lot_size 1 and a name.
C12_OthersDroppedFromBothOutputs ==
    Separated =>
        /\ \A k \in DOMAIN csv_last.instruments :
               (/\ ~IsIndex(csv_last.instruments[k])
                /\ \/ csv_last.instruments[k].lot_size # 1
                   \/ BlankName(csv_last.instruments[k]))
                   => InNoOutput(csv_last.instruments[k])
        /\ \A j \in DOMAIN SavedRows(other_csv) :
               SavedRows(other_csv)[j].lot_size = 1 /\ SavedRows(other_csv)[j].name # ""

\* Three instruments outside the indices, with lot size 50, with a missing
\* name and with a whitespace name: all dropped, no tradable file saved.
C12_Witness ==
    /\ Separated
    /\ Len(csv_last.instruments) = 3
    /\ \E k \in 1..3 : csv_last.instruments[k].lot_size = 50
    /\ \E k \in 1..3 : csv_last.instruments[k].name = NaN
                       /\ csv_last.instruments[k].lot_size = 1
    /\ \E k \in 1..3 : csv_last.instruments[k].name = " "
    /\ \A k \in 1..3 : ~IsIndex(csv_last.instruments[k])
    /\ csv_last.other_instruments_df = <<>>
    /\ other_csv = None

\* C13: the index table is the sub-sequence of the loaded instruments with
\* segment "INDICES", the tradable table the sub-sequence of the others with
\* lot_size 1 and a non-blank name, both in catalog order; together they
\* hold no more rows than the catalog and no row is in both; each non-empty
\* table is what its file holds.
C13_OrderPreservingPartition ==
    Separated =>
        /\ csv_last.indices_df = SelectSeq(csv_last.instruments, IsIndex)
        /\ csv_last.other_instruments_df = SelectSeq(csv_last.instruments, IsTradable)
        /\ Len(csv_last.indices_df) + Len(csv_last.other_instruments_df)
               <= Len(csv_last.instruments)
        /\ \A i \in DOMAIN csv_last.indices_df :
               \A j \in DOMAIN csv_last.other_instruments_df :
                   csv_last.indices_df[i] # csv_last.other_instruments_df[j]
        /\ csv_last.indices_df # <<>> =>
               SavedRows(indices_csv) = to_csv(csv_last.indices_df)
        /\ csv_last.other_instruments_df # <<>> =>
               SavedRows(other_csv) = to_csv(csv_last.other_instruments_df)

\* Two different index instruments around a tradable one: the index table
\* keeps the catalog order of the two.
C13_Witness ==
    /\ Separated
    /\ Len(csv_last.instruments) = 3
    /\ IsIndex(csv_last.instruments[1]) /\ IsIndex(csv_last.instruments[3])
    /\ csv_last.instruments[1] # csv_last.instruments[3]
    /\ csv_last.indices_df = <<csv_last.instruments[1], csv_last.instruments[3]>>
    /\ csv_last.other_instruments_df = <<csv_last.instruments[2]>>

\* ------------------------------------- properties of get_instruments_data

\* The step is a get_instruments_data call made with the snapshot file present.
CalledWithSnapshot == snapshot_csv # None /\ csv_last'.op = "get_instruments_data"

\* The instrument_token values of a catalog.
TokenSet(instruments) == {instruments[k].instrument_token : k \in DOMAIN instruments}

\* C14: a get_instruments_data call made with the snapshot file present
\* returns the instruments of the file, makes no vendor call and leaves the
\* cached list, symbol map and token map as they were.
C14_SnapshotLoadedWithoutFetch ==
    [][CalledWithSnapshot =>
          /\ ~csv_last'.raised
          /\ csv_last'.ret # None
          /\ Val(csv_last'.ret).instruments = read_csv(Val(snapshot_csv)).instruments
          /\ csv_last'.vendor = <<>>
          /\ Cache' = Cache]_vars

\* The part of C14 that holds: no vendor call, the cache unchanged, and the
\* instruments of the file returned unless the file has no columns, in
\* which case read_csv raises.
C14_NoFetchWithSnapshot ==
    [][CalledWithSnapshot =>
          /\ csv_last'.vendor = <<>>
          /\ Cache' = Cache
          /\ csv_last'.raised <=> Val(snapshot_csv) = <<>>
          /\ ~csv_last'.raised =>
                 Val(csv_last'.ret).instruments = read_csv(Val(snapshot_csv)).instruments]_vars

\* A call with the file present and the cache set, after the vendor catalog
\* was fetched once: served from the file.
C14_Witness ==
    /\ csv_last.op = "get_instruments_data"
    /\ snapshot_csv # None
    /\ instruments_list # None
    /\ csv_last.vendor = <<>>
    /\ ~csv_last.raised
    /\ Len(Val(csv_last.ret).instruments) = 2

\* C15: the snapshot file is written only while it does not exist: once it
\* exists no step changes it, and every get_instruments_data call returns
\* the instruments of the file, whatever the vendor would deliver.
C15_SnapshotWrittenOnce ==
    [][snapshot_csv # None =>
          /\ snapshot_csv' = snapshot_csv
          /\ csv_last'.op = "get_instruments_data" =>
                 /\ ~csv_last'.raised
                 /\ csv_last'.ret # None
                 /\ Val(csv_last'.ret).instruments = read_csv(Val(snapshot_csv)).instruments]_vars

\* The part of C15 that holds: an existing snapshot file never changes and
\* the vendor is not called again.
C15_SnapshotNeverRewritten ==
    [][snapshot_csv # None =>
          /\ snapshot_csv' = snapshot_csv
          /\ csv_last'.op = "get_instruments_data" => csv_last'.vendor = <<>>]_vars

\* A later call has been served from a file that a fetch of this run saved.
LoadedBack ==
    /\ instruments_list # None
    /\ csv_last.op = "get_instruments_data"
    /\ csv_last.vendor = <<>>

\* C16: a call that loads back the snapshot a fetch has saved returns as
\* many instruments as were fetched, with the same set of instrument_token
\* values.
C16_RoundTrip ==
    LoadedBack =>
        /\ ~csv_last.raised
        /\ csv_last.ret # None
        /\ Len(Val(csv_last.ret).instruments) = Len(Val(instruments_list))
        /\ TokenSet(Val(csv_last.ret).instruments) = TokenSet(Val(instruments_list))

\* The part of C16 that holds: the round trip of a catalog that is not empty.
C16_RoundTripOfRows ==
    LoadedBack =>
        /\ csv_last.raised <=> Val(instruments_list) = <<>>
        /\ ~csv_last.raised =>
               /\ Len(Val(csv_last.ret).instruments) = Len(Val(instruments_list))
               /\ TokenSet(Val(csv_last.ret).instruments) = TokenSet(Val(instruments_list))

\* A catalog of three instruments loaded back, a missing name read as NaN.
C16_Witness ==
    /\ LoadedBack
    /\ ~csv_last.raised
    /\ Len(Val(instruments_list)) = 3
    /\ \E k \in 1..3 : /\ Val(instruments_list)[k].name = ""
                       /\ Val(csv_last.ret).instruments[k].name = NaN

\* --------------------------------------------- properties of the lookups

\* C17: get_instrument_token and get_instrument_details make the catalog
\* fetch (one vendor call) exactly when the symbol map is not yet built and
\* otherwise leave the cache alone; they never raise; with the catalog
\* cached after the call, a symbol carried by an instrument of the catalog
\* yields the token (resp. the instrument) of the last instrument carrying
\* it and any other symbol yields None; when the fetch fails the result is
\* None.
C17_LazyLookupNeverRaises ==
    [][last'.op \in {"get_instrument_token", "get_instrument_details"} =>
          LET symbol == last'.args[1]
          IN /\ ~last'.raised
             /\ symbol_to_instrument_map # None =>
                    last'.vendor = <<>> /\ Cache' = Cache
             /\ symbol_to_instrument_map = None =>
                    /\ Len(last'.vendor) = 1
                    /\ last'.vendor[1][1] = "instruments"
                    /\ last'.vendor[1][3] = "fault" => instruments_list' = None
             /\ IF instruments_list' = None THEN last'.ret = None
                ELSE LET l == Val(instruments_list')
                     IN IF \E k \in DOMAIN l : l[k].tradingsymbol = symbol
                        THEN last'.ret =
                                 IF last'.op = "get_instrument_token"
                                 THEN Some(l[LastWithSymbol(l, symbol)].instrument_token)
                                 ELSE Some(l[LastWithSymbol(l, symbol)])
                        ELSE last'.ret = None]_vars

\* A lookup that fetched a catalog with symbol "B" twice and answered with
\* the token of the second instrument.
C17_Witness ==
    /\ last.op = "get_instrument_token"
    /\ last.args = <<"B">>
    /\ last.vendor # <<>>
    /\ instruments_list = Some(<<Instrument("B", 1), Instrument("B", 2)>>)
    /\ last.ret = Some(2)

\* A lookup whose fetch failed: None, nothing raised, the cache still unset.
C17_WitnessFailedFetch ==
    /\ last.op = "get_instrument_details"
    /\ last.vendor # <<>>
    /\ last.vendor[1][3] = "fault"
    /\ last.ret = None
    /\ ~last.raised
    /\ symbol_to_instrument_map = None

\* ------------------------------------ properties of analyze_historical_data

\* analyze_historical_data has returned.
Analyzed == analysis.ret # None

\* The bar has a close that is neither null nor zero.
HasClose(bar) == bar.close # None /\ Val(bar.close) # 0

\* The instrument has a series with at least one such close.
HasValidClose(result) ==
    /\ result.historical_data # None
    /\ \E k \in DOMAIN Val(result.historical_data) : HasClose(Val(result.historical_data)[k])

\* The instruments of the collection that have a valid close, in order.
Analysable == SelectSeq(analysis.historical_data_results, HasValidClose)

\* C18: for a non-empty collection the result is success: true, there is
\* one record per instrument that has at least one non-zero, non-null
\* close, in the order of the collection, and none for any other
\* instrument; total_analyzed is the number of those instruments.
C18_NoRecordWithoutValidClose ==
    (Analyzed /\ analysis.historical_data_results # <<>>) =>
        LET ret == Val(analysis.ret)
        IN /\ ret.success
           /\ ret.total_analyzed = Len(Analysable)
           /\ Len(ret.analysis_results) = Len(Analysable)
           /\ \A j \in DOMAIN ret.analysis_results :
                  /\ ret.analysis_results[j].trading_symbol = Analysable[j].trading_symbol
                  /\ ret.analysis_results[j].instrument_token = Analysable[j].instrument_token

\* The only instrument has a zero close and a null close: success: true
\* with no record and total_analyzed 0.
C18_Witness ==
    /\ Analyzed
    /\ Len(analysis.historical_data_results) = 1
    /\ analysis.historical_data_results[1].historical_data # None
    /\ LET data == Val(analysis.historical_data_results[1].historical_data)
       IN /\ Len(data) = 2
          /\ data[1].close = Some(0)
          /\ data[2].close = None
    /\ Val(analysis.ret).success
    /\ Val(analysis.ret).analysis_results = <<>>
    /\ Val(analysis.ret).total_analyzed = 0

\* C19: the result is the failure envelope 'No historical data to analyze'
\* exactly when the collection is empty; every non-empty collection yields
\* success: true.
C19_FailureOnlyForEmptyCollection ==
    Analyzed =>
        LET ret == Val(analysis.ret)
        IN /\ analysis.historical_data_results = <<>> =>
                  ~ret.success /\ ret.error = <<"No historical data to analyze">>
           /\ analysis.historical_data_results # <<>> => ret.success

\* Two instruments, one without a series and one with an empty series:
\* success: true although no record is produced.
C19_Witness ==
    /\ Analyzed
    /\ Len(analysis.historical_data_results) = 2
    /\ analysis.historical_data_results[1].historical_data = None
    /\ analysis.historical_data_results[2].historical_data = Some(<<>>)
    /\ Val(analysis.ret).success
    /\ Val(analysis.ret).total_analyzed = 0

\* The closes of the series that are neither null nor zero, in order.
FilteredCloses(data) ==
    LET kept == SelectSeq(data, HasClose)
    IN [k \in DOMAIN kept |-> Val(kept[k].close)]

\* C20: each record's price figures are those of the filtered closes of its
\* instrument: first and last by position, minimum and maximum, the
\* arithmetic mean, the change last - first, and the percentage
\* change / first * 100, which is 0 when first <= 0.
C20_PriceStatistics ==
    (Analyzed /\ Val(analysis.ret).success) =>
        \A j \in DOMAIN Val(analysis.ret).analysis_results :
            LET stats == Val(analysis.ret).analysis_results[j].price_analysis
                closes == FilteredCloses(Val(Analysable[j].historical_data))
                n == Len(closes)
            IN /\ n > 0
               /\ stats.first_price = closes[1]
               /\ stats.last_price = closes[n]
               /\ \E k \in 1..n : stats.min_price = closes[k]
               /\ \A k \in 1..n : stats.min_price <= closes[k]
               /\ \E k \in 1..n : stats.max_price = closes[k]
               /\ \A k \in 1..n : closes[k] <= stats.max_price
               /\ stats.avg_price.den > 0
               /\ stats.avg_price.num * n = sum(closes) * stats.avg_price.den
               /\ stats.price_change = closes[n] - closes[1]
               /\ stats.price_change_percent.den > 0
               /\ IF closes[1] <= 0 THEN stats.price_change_percent.num = 0
                  ELSE stats.price_change_percent.num * closes[1]
                           = stats.price_change * 100 * stats.price_change_percent.den

\* Closes [100, 110, 90, 105]: first 100, last 105, min 90, max 110,
\* avg 101.25 (405/4), change 5, percentage 5.
C20_Witness ==
    /\ Analyzed
    /\ Len(analysis.historical_data_results) = 1
    /\ analysis.historical_data_results[1].historical_data # None
    /\ FilteredCloses(Val(analysis.historical_data_results[1].historical_data))
           = <<100, 110, 90, 105>>
    /\ Val(analysis.ret).total_analyzed = 1
    /\ Val(analysis.ret).analysis_results[1].price_analysis
           = [first_price |-> 100, last_price |-> 105, min_price |-> 90,
              max_price |-> 110, avg_price |-> [num |-> 405, den |-> 4],
              price_change |-> 5, price_change_percent |-> [num |-> 5, den |-> 1],
              variance |-> [num |-> 875, den |-> 16]]

\* A series whose first valid close is negative: the percentage is 0
\* although the price changed.
C20_WitnessNegativeFirst ==
    /\ Analyzed
    /\ Val(analysis.ret).success
    /\ \E j \in DOMAIN Val(analysis.ret).analysis_results :
           LET stats == Val(analysis.ret).analysis_results[j].price_analysis
           IN /\ stats.first_price < 0
              /\ stats.price_change > 0
              /\ stats.price_change_percent = [num |-> 0, den |-> 1]

\* The sum of the squares of the numbers.
RECURSIVE SumOfSquares(_)
SumOfSquares(numbers) ==
    IF numbers = <<>> THEN 0
    ELSE Head(numbers) * Head(numbers) + SumOfSquares(Tail(numbers))

\* The variance of every record is the mean of the squared deviations of
\* the filtered closes from their mean, with divisor N:
\* (N * sum of squares - square of the sum) / N^2.
PopulationVariance ==
    (Analyzed /\ Val(analysis.ret).success) =>
        \A j \in DOMAIN Val(analysis.ret).analysis_results :
            LET stats == Val(analysis.ret).analysis_results[j].price_analysis
                closes == FilteredCloses(Val(Analysable[j].historical_data))
                n == Len(closes)
            IN /\ stats.variance.den > 0
               /\ stats.variance.num * n * n
                      = (n * SumOfSquares(closes) - sum(closes) * sum(closes))
                        * stats.variance.den

\* The only instrument has the filtered closes [100, 110, 90, 105].
ExampleCloses ==
    /\ Analyzed
    /\ Len(analysis.historical_data_results) = 1
    /\ analysis.historical_data_results[1].historical_data # None
    /\ FilteredCloses(Val(analysis.historical_data_results[1].historical_data))
           = <<100, 110, 90, 105>>

\* C21 as stated: volatility is the square root of the population variance
\* of the filtered closes, and for closes [100, 110, 90, 105] the variance
\* is 55.1875 (883/16).
C21_VarianceOfExampleIs55 ==
    /\ PopulationVariance
    /\ ExampleCloses =>
           Val(analysis.ret).analysis_results[1].price_analysis.variance
               = [num |-> 883, den |-> 16]

\* C21: volatility is the square root of the population variance of the
\* filtered closes (divisor N, not N - 1); for closes [100, 110, 90, 105]
\* the variance is 54.6875 (875/16).
C21_PopulationVariance ==
    /\ PopulationVariance
    /\ ExampleCloses =>
           Val(analysis.ret).analysis_results[1].price_analysis.variance
               = [num |-> 875, den |-> 16]

\* The example series analysed, with the variance 875/16 in its record.
C21_Witness ==
    /\ ExampleCloses
    /\ Val(analysis.ret).analysis_results[1].price_analysis.variance.num = 875
    /\ Val(analysis.ret).analysis_results[1].price_analysis.variance.den = 16

\* ------------------------------------------- properties of generate_session

\* C25: a generate_session call that returns a success envelope leaves the
\* Adapter holding the returned access_token; one that returns a failure
\* envelope leaves it holding the token it held before the call.
C25_TokenChangesOnlyOnSuccess ==
    [][last'.op = "generate_session" =>
          IF last'.ret.success
          THEN access_token' = last'.ret.access_token
          ELSE access_token' = access_token]_vars

\* A failed generate_session call after which the Adapter still holds a token.
C25_Witness ==
    /\ last.op = "generate_session"
    /\ ~last.ret.success
    /\ last.vendor # <<>>
    /\ access_token # ""

\* A successful generate_session call: the Adapter holds the returned token.
C25_WitnessSuccess ==
    /\ last.op = "generate_session"
    /\ last.ret.success
    /\ access_token = last.ret.access_token
    /\ access_token # ""

\* ------------------------------------------- properties of the constructors

MissingCredential == environ.KITE_API_KEY = "" \/ environ.KITE_API_SECRET = ""

\* C26: with a credential missing Filter1 holds no Adapter, and
\* fetch_instruments_and_historical_data returns the failure envelope
\* 'KiteService not initialized' without entering the loop: the instrument
\* file is not read, no historical_data call is made and no file is written.
C26_NullAdapterFailsFast ==
    MissingCredential =>
        /\ kite_service = FALSE
        /\ fetch.pc # "loop"
        /\ ~fetch.loaded
        /\ fetch.instruments = <<>>
        /\ fetch.requests = <<>>
        /\ \A path \in OutputPaths : ohlc_files[path] = None
        /\ fetch.pc = "done" =>
               fetch.ret = Some(Failure(<<"KiteService not initialized">>))

\* The key is set but the secret is not; the instrument file exists and the
\* call has returned the failure envelope.
C26_Witness ==
    /\ environ.KITE_API_KEY # ""
    /\ environ.KITE_API_SECRET = ""
    /\ instruments_file # None
    /\ fetch.pc = "done"
    /\ fetch.ret = Some(Failure(<<"KiteService not initialized">>))

\* ----------------------------------------- properties of the output files

\* C28 as stated: with a non-empty accumulator the finished call has written
\* the combined table to output_file_path, whatever that path, the parent
\* directory of the path exists, and the call returned success: true.
C28_CombinedFileAtAnyOutputPath ==
    (fetch.pc = "done" /\ fetch.all_instrument_histories # <<>>) =>
        /\ ParentDir(fetch.output_file_path) \in dirs
        /\ ohlc_files[fetch.output_file_path]
               = Some(Concat(fetch.all_instrument_histories))
        /\ fetch.ret # None
        /\ Val(fetch.ret).success

\* The default path: "results" did not have to exist, the combined table is
\* in the file and the call returned success: true.
C28_WitnessDefaultPath ==
    /\ fetch.pc = "done"
    /\ fetch.all_instrument_histories # <<>>
    /\ fetch.output_file_path = "results/ohlc-nse-indices.csv"
    /\ ohlc_files[fetch.output_file_path] = Some(Concat(fetch.all_instrument_histories))
    /\ fetch.ret # None
    /\ Val(fetch.ret).success

\* C24 as stated: every get_instruments_data and process_csv call returns
\* an envelope: it neither raises nor returns None.
C24_AlwaysAnEnvelope ==
    csv_last.op # "init" =>
        /\ ~csv_last.raised
        /\ csv_last.ret # None
        /\ "success" \in DOMAIN Val(csv_last.ret)

\* get_instruments_data raised after a vendor fetch that failed.
C24_WitnessFailedFetch ==
    /\ csv_last.op = "get_instruments_data"
    /\ csv_last.raised
    /\ csv_last.vendor # <<>>
    /\ snapshot_csv = None

\* The step is a process_csv call.
ProcessCsvStep == csv_last'.op = "process_csv"

\* C27: a process_csv call leaves in the index file the index table when
\* the table is non-empty and leaves the file as it was (absent, or as an
\* earlier run left it) when the table is empty; likewise the tradable file.
C27_FileWrittenIffBucketNonEmpty ==
    [][ProcessCsvStep =>
          /\ indices_csv' = IF csv_last'.indices_df # <<>>
                            THEN Some(to_csv(csv_last'.indices_df))
                            ELSE indices_csv
          /\ other_csv' = IF csv_last'.other_instruments_df # <<>>
                          THEN Some(to_csv(csv_last'.other_instruments_df))
                          ELSE other_csv]_vars

\* A snapshot without an index: the index file of the earlier run is still
\* there, the tradable file holds the new tradable table.
C27_Witness ==
    /\ Separated
    /\ csv_last.indices_df = <<>>
    /\ indices_csv = Some(StaleIndices)
    /\ csv_last.other_instruments_df # <<>>
    /\ other_csv = Some(to_csv(csv_last.other_instruments_df))

\* A snapshot of dropped instruments only: neither file is created.
C27_WitnessNoFile ==
    /\ Separated
    /\ csv_last.instruments # <<>>
    /\ csv_last.indices_df = <<>>
    /\ csv_last.other_instruments_df = <<>>
    /\ indices_csv = None
    /\ other_csv = None

\* ------------------------------------------------------ main.py: the routes

\* The URL rules main.py registers for the adapter, by the operation called.
Path(op) ==
    CASE op = "get_login_url" -> "/api/kite/login-url"
      [] op = "generate_session" -> "/api/kite/session"
      [] op = "get_profile" -> "/api/kite/profile"
      [] op = "get_margins" -> "/api/kite/margins"
      [] op = "get_holdings" -> "/api/kite/holdings"
      [] op = "get_positions" -> "/api/kite/positions"
      [] op = "get_orders" -> "/api/kite/orders"
      [] op = "get_instruments" -> "/api/kite/instruments"
      [] op = "get_quote" -> "/api/kite/quote"
      [] op = "get_ohlc" -> "/api/kite/ohlc"
      [] op = "get_ltp" -> "/api/kite/ltp"
      [] op = "place_order" -> "/api/kite/place-order"
      [] op = "modify_order" -> "/api/kite/modify-order"
      [] op = "cancel_order" -> "/api/kite/cancel-order"
      [] op = "get_order_history" -> "/api/kite/order-history/<order_id>"

RoutedOps == SimpleOps \cup {"get_login_url", "generate_session", "get_instruments",
                             "get_quote"}

\* Every rule of the application for the adapter, the logout and the callback.
Routes == {Path(op) : op \in RoutedOps}
              \cup {"/api/kite/logout", "/apis/broker/login/zerodha"}

\* The URLs a client of the adapter's endpoints asks for.
RequestPaths == Routes \cup {"/api/kite/historical-data"}

\* jsonify({"error": message}), status
ErrorResponse(status, message) ==
    [status |-> status, body |-> [error |-> message], called |-> FALSE, call |-> None]

\* if not kite_service: return jsonify({"error": "Kite service not initialized"}), 500
NotInitialized == ErrorResponse(500, <<"Kite service not initialized">>)

\* The tail of a route with every result answered 200.
pass_through_always_200(r) ==
    [status |-> 200, body |-> r.ret, called |-> TRUE, call |-> Some(r)]

\* The tail of every pass-through route: jsonify(result), with status 400
\* when result['success'] is false.
pass_through(r) ==
    [status |-> IF r.ret.success THEN 200 ELSE 400, body |-> r.ret,
     called |-> TRUE, call |-> Some(r)]

\* data.get(key, default)
Get(data, key, default) == IF key \in DOMAIN data THEN data[key] ELSE default

required_fields == <<"variety", "exchange", "tradingsymbol", "transaction_type",
                     "quantity", "product", "order_type">>

\* A JSON object with the given keys.
Object(keys) == [k \in keys |-> "v"]

\* The JSON objects posted to a route: complete, and with a key left out.
RequestData(op) ==
    CASE op \in {"get_ohlc", "get_ltp"} ->
             {EmptyDict, [instruments |-> <<>>], [instruments |-> <<"1">>]}
      [] op = "place_order" ->
             {Object(Range(required_fields))}
                 \cup {Object(Range(required_fields) \ {f}) : f \in Range(required_fields)}
                 \cup {Object(Range(required_fields) \ {"variety", "quantity"})}
      [] op \in {"modify_order", "cancel_order"} ->
             {Object({"variety", "order_id"}), Object({"variety"}), Object({"order_id"}),
              EmptyDict}
      [] OTHER -> {EmptyDict}

\* The test a route makes of the posted object before it calls the adapter:
\* the message of its 400 response, or None.
validate(op, data) ==
    CASE op \in {"get_quote", "get_ohlc", "get_ltp"} ->
             IF Get(data, "instruments", <<>>) = <<>>
             THEN Some(<<"instruments list is required">>) ELSE None
      [] op = "place_order" ->
             LET missing == SelectSeq(required_fields, LAMBDA f : f \notin DOMAIN data)
             IN IF missing # <<>> THEN Some(<<missing[1], " is required">>) ELSE None
      [] op \in {"modify_order", "cancel_order"} ->
             IF "variety" \notin DOMAIN data \/ "order_id" \notin DOMAIN data
             THEN Some(<<"variety and order_id are required">>) ELSE None
      [] op = "generate_session" ->
             IF Get(data, "request_token", "") = ""
             THEN Some(<<"request_token is required">>) ELSE None
      [] OTHER -> None

\* The routes get_profile ... get_order_history.
route_simple(service, op, data, outcome) ==
    IF ~service THEN NotInitialized
    ELSE IF validate(op, data) # None THEN ErrorResponse(400, Val(validate(op, data)))
    ELSE pass_through(simple_vendor_op(op, <<data>>, outcome))

\* The route get_instruments.
route_get_instruments(service, cache, exchange, outcome) ==
    IF ~service THEN NotInitialized
    ELSE pass_through(get_instruments(cache, exchange, outcome))

\* The route get_quote.
route_get_quote(service, cache, data, outcomes, outcome) ==
    IF ~service THEN NotInitialized
    ELSE IF validate("get_quote", data) # None
    THEN ErrorResponse(400, Val(validate("get_quote", data)))
    ELSE pass_through(get_quote(cache, data.instruments, outcomes, outcome))

\* The route get_login_url: the URL in an object of its own, 500 when the
\* adapter raised.
route_get_login_url(service, outcome) ==
    IF ~service THEN NotInitialized
    ELSE LET r == get_login_url(outcome)
         IN IF r.raised
            THEN [status |-> 500, body |-> [error |-> <<outcome.message>>],
                  called |-> TRUE, call |-> Some(r)]
            ELSE [status |-> 200, body |-> [login_url |-> Val(r.ret)],
                  called |-> TRUE, call |-> Some(r)]

\* The route generate_session.
route_generate_session(service, token, data, outcome) ==
    IF ~service THEN NotInitialized
    ELSE IF validate("generate_session", data) # None
    THEN ErrorResponse(400, Val(validate("generate_session", data)))
    ELSE pass_through(generate_session(token, data.request_token, outcome))

\* save_token_to_env: the KITE_ACCESS_TOKEN line of the file is replaced or
\* added; an absent file is created.
save_token_to_env(file, token) == Some(token)

\* A logout that also forgets the adapter's token.
logout_forgets_token(file, token) ==
    [env_file |-> save_token_to_env(file, ""), access_token |-> "",
     status |-> 200,
     body |-> [success |-> TRUE, message |-> <<"Logged out successfully">>]]

\* The route logout: save_token_to_env(''), nothing else.
logout(file, token) ==
    [env_file |-> save_token_to_env(file, ""), access_token |-> token,
     status |-> 200,
     body |-> [success |-> TRUE, message |-> <<"Logged out successfully">>]]

\* render_template('callback_error.html', error=...)
callback_error(file, token, error, call) ==
    [status |-> 200, body |-> [template |-> "callback_error.html", error |-> error],
     called |-> call # None, call |-> call, env_file |-> file, access_token |-> token]

\* The route kite_callback: generate_session inside try (on a None adapter
\* the call raises AttributeError, which is caught), and on success the
\* token saved to the .env file.
kite_callback(service, file, token, request_token, outcome) ==
    IF request_token = ""
    THEN callback_error(file, token, <<"No request token received from Zerodha">>, None)
    ELSE IF ~service
    THEN callback_error(file, token, <<"Error processing login: ", "AttributeError">>, None)
    ELSE LET r == generate_session(token, request_token, outcome)
         IN IF r.ret.success
            THEN [status |-> 200,
                  body |-> [template |-> "callback_success.html",
                            access_token |-> r.ret.access_token],
                  called |-> TRUE, call |-> Some(r),
                  env_file |-> save_token_to_env(file, r.ret.access_token),
                  access_token |-> r.access_token]
            ELSE callback_error(file, r.access_token, r.ret.error, Some(r))

\* The response of a route, with the request it answers.
Response(path, data, w) ==
    [path |-> path, data |-> data, status |-> w.status, body |-> w.body,
     called |-> w.called]

\* The adapter operation a route made, if it made one.
LastCall(op, args, w) == IF w.called THEN Operation(op, args, Val(w.call)) ELSE last

WebSimpleRoute ==
    \E op \in SimpleOps, outcome \in PayloadOutcomes :
        \E data \in RequestData(op) :
            LET w == route_simple(kite_service, op, data, outcome)
            IN /\ response' = Response(Path(op), data, w)
               /\ last' = LastCall(op, <<data>>, w)
               /\ UnchangedCache
               /\ UNCHANGED <<access_token, filter_vars, environ, env_file, threads>>

WebGetInstruments ==
    \E exchange \in Exchanges, outcome \in OutcomesNow(SomeCatalogOutcomes) :
        LET w == route_get_instruments(kite_service, Cache, exchange, outcome)
        IN /\ response' = Response(Path("get_instruments"), [exchange |-> exchange], w)
           /\ last' = LastCall("get_instruments", <<exchange>>, w)
           /\ IF w.called THEN SetCache(Val(w.call)) ELSE UnchangedCache
           /\ UNCHANGED <<access_token, filter_vars, environ, env_file, threads>>

WebGetQuote ==
    \E instruments \in {<<>>, <<"1">>, <<"A">>, <<"Z">>}, outcome \in QuoteOutcomes :
        \E outcomes \in [DOMAIN instruments -> OutcomesNow(SomeCatalogOutcomes)] :
            LET data == [instruments |-> instruments]
                w == route_get_quote(kite_service, Cache, data, outcomes, outcome)
            IN /\ response' = Response(Path("get_quote"), data, w)
               /\ last' = LastCall("get_quote", <<instruments>>, w)
               /\ IF w.called THEN SetCache(Val(w.call)) ELSE UnchangedCache
               /\ UNCHANGED <<access_token, filter_vars, environ, env_file, threads>>

WebGetLoginUrl ==
    \E outcome \in {Fault, Returns("https://kite/login")} :
        LET w == route_get_login_url(kite_service, outcome)
        IN /\ response' = Response(Path("get_login_url"), EmptyDict, w)
           /\ last' = LastCall("get_login_url", <<>>, w)
           /\ UnchangedCache
           /\ UNCHANGED <<access_token, filter_vars, environ, env_file, threads>>

WebGenerateSession ==
    \E data \in {EmptyDict, [request_token |-> ""], [request_token |-> "request_token"]},
       outcome \in SessionOutcomes :
        LET w == route_generate_session(kite_service, access_token, data, outcome)
        IN /\ response' = Response(Path("generate_session"), data, w)
           /\ last' = LastCall("generate_session", <<"request_token">>, w)
           /\ access_token' = IF w.called THEN Val(w.call).access_token ELSE access_token
           /\ UnchangedCache
           /\ UNCHANGED <<filter_vars, environ, env_file, threads>>

WebLogout ==
    LET w == logout(env_file, access_token)
    IN /\ response' = [path |-> "/api/kite/logout", data |-> EmptyDict,
                       status |-> w.status, body |-> w.body, called |-> FALSE]
       /\ env_file' = w.env_file
       /\ access_token' = w.access_token
       /\ UnchangedCache
       /\ UNCHANGED <<last, filter_vars, environ, threads>>

WebCallback ==
    \E request_token \in {"", "request_token"}, outcome \in SessionOutcomes :
        LET w == kite_callback(kite_service, env_file, access_token, request_token, outcome)
        IN /\ response' = Response("/apis/broker/login/zerodha",
                                   [request_token |-> request_token], w)
           /\ last' = LastCall("generate_session", <<request_token>>, w)
           /\ env_file' = w.env_file
           /\ access_token' = w.access_token
           /\ UnchangedCache
           /\ UNCHANGED <<filter_vars, environ, threads>>

\* A URL no rule matches: the framework answers 404, no view function runs.
WebNotFound ==
    \E path \in RequestPaths \ Routes :
        /\ response' = [path |-> path, data |-> EmptyDict, status |-> 404,
                        body |-> [error |-> <<"Not Found">>], called |-> FALSE]
        /\ UNCHANGED <<adapter_vars, filter_vars, environ, env_file, threads>>

\* The .env file at the start: absent, without a token, with a token.
EnvFiles == {None, Some(""), Some("t0")}

\* main.py loaded: kite_service is KiteService(), or None when the
\* constructor raised ValueError; the adapter's token is the token of the
\* .env file.
InitWeb ==
    /\ instruments_list = None
    /\ symbol_to_instrument_map = None
    /\ token_to_instrument_map = None
    /\ environ \in Environs
    /\ env_file \in EnvFiles
    /\ kite_service = ~KiteService_init(environ).raised
    /\ access_token = IF kite_service /\ env_file # None THEN Val(env_file) ELSE ""
    /\ first_fetched = None
    /\ last = NoOperation
    /\ instruments_file = None
    /\ dirs = {}
    /\ ohlc_files = [path \in OutputPaths |-> None]
    /\ fetch = IdleFrame
    /\ NoCsv
    /\ analysis = NoAnalysis
    /\ response = NoResponse
    /\ threads = [t \in Threads |-> IdleThread]

NextWeb ==
    \/ WebSimpleRoute
    \/ WebGetInstruments
    \/ WebGetQuote
    \/ WebGetLoginUrl
    \/ WebGenerateSession
    \/ WebLogout
    \/ WebCallback
    \/ WebNotFound

\* Any sequence of requests to the web service, one at a time.
SpecWeb == InitWeb /\ [][NextWeb]_vars

\* ------------------------------------------------ properties of the routes

\* The routes of main.py after the authentication routes.
PassThroughOps == SimpleOps \cup {"get_instruments", "get_quote"}

\* The last response is that of a pass-through route.
PassedThrough == \E op \in PassThroughOps : response.path = Path(op)

RouteOp == CHOOSE op \in PassThroughOps : response.path = Path(op)

\* C22 as stated: a pass-through route answers 500 without an adapter, and
\* otherwise the adapter's envelope, with 400 when success is false and 200
\* when it is true.
C22_EnvelopeOrNotInitialized ==
    PassedThrough =>
        IF ~kite_service
        THEN response.status = 500
        ELSE /\ response.called
             /\ response.body = last.ret
             /\ response.status = IF last.ret.success THEN 200 ELSE 400

\* C22: a pass-through route answers 500 without an adapter; otherwise 400
\* with an error object of its own, the adapter not called, when the posted
\* object fails the route's test (no instruments, a required order field
\* missing); otherwise the adapter's envelope, with 400 when success is
\* false and 200 when it is true.
C22_ValidatedPassThrough ==
    PassedThrough =>
        IF ~kite_service
        THEN /\ response.status = 500
             /\ ~response.called
             /\ response.body = [error |-> <<"Kite service not initialized">>]
        ELSE IF validate(RouteOp, response.data) # None
        THEN /\ response.status = 400
             /\ ~response.called
             /\ response.body = [error |-> Val(validate(RouteOp, response.data))]
        ELSE /\ response.called
             /\ last.op = RouteOp
             /\ response.body = last.ret
             /\ response.status = IF last.ret.success THEN 200 ELSE 400

\* The adapter returned a failure envelope and the route answered it with 400.
C22_Witness ==
    /\ PassedThrough
    /\ kite_service
    /\ response.called
    /\ response.status = 400
    /\ response.body = last.ret
    /\ ~last.ret.success

\* Without an adapter the route answered 500.
C22_WitnessNotInitialized ==
    /\ PassedThrough
    /\ ~kite_service
    /\ response.status = 500

\* An order without its quantity: 400 from the route, the adapter not called.
C22_WitnessRejected ==
    /\ response.path = Path("place_order")
    /\ kite_service
    /\ "quantity" \notin DOMAIN response.data
    /\ "variety" \in DOMAIN response.data
    /\ response.status = 400
    /\ response.body = [error |-> <<"quantity", " is required">>]
    /\ ~response.called

\* C23 as stated: a request to /api/kite/historical-data is answered by a
\* route: 500 without an adapter, otherwise the envelope of
\* KiteService.historical_data with 200 or 400.
C23_HistoricalDataEndpoint ==
    response.path = "/api/kite/historical-data" =>
        IF ~kite_service
        THEN response.status = 500
        ELSE /\ response.called
             /\ last.op = "historical_data"
             /\ response.body = last.ret
             /\ response.status \in {200, 400}

\* The request was answered 404 with an adapter in place.
C23_Witness ==
    /\ response.path = "/api/kite/historical-data"
    /\ kite_service
    /\ response.status = 404

\* The step is a request to the logout route.
LogoutStep == response'.path = "/api/kite/logout"

\* C30: a logout sets the token of the .env file to empty and changes
\* nothing of the adapter: its access token, its cache and the adapter
\* itself are as before, and no adapter operation is called.
C30_LogoutChangesOnlyEnvFile ==
    [][LogoutStep =>
          /\ env_file' = Some("")
          /\ ~response'.called
          /\ UNCHANGED <<access_token, instruments_list, symbol_to_instrument_map,
                         token_to_instrument_map, last, kite_service, environ>>]_vars

\* After a successful session, a logout: the file holds no token, the
\* adapter still holds the token of the session.
C30_Witness ==
    /\ response.path = "/api/kite/logout"
    /\ response.status = 200
    /\ env_file = Some("")
    /\ access_token = "t1"

\* ------------------------------ get_instruments on a multi-threaded web host

\* The web host runs every request in a thread of its own, and all threads
\* share the class-level cache. A call of get_instruments is taken statement
\* by statement: the cache test, the vendor call, the three cache
\* assignments, each pass of the map loop, the return. last.vendor is the
\* history of the vendor calls of all threads.

ThreadOutcomes == {Fault, Returns(<<Instrument("A", 1), Instrument("B", 2)>>)}

\* A cache test that never finds the list.
cache_hit_never(list) == FALSE

\* if KiteService._instruments_list is not None
cache_hit(list) == list # None

\* The success envelope of get_instruments with the maps as they are now.
InstrumentsEnvelope(instruments) ==
    [success |-> TRUE, instruments |-> instruments,
     symbol_to_instrument_map |-> symbol_to_instrument_map,
     token_to_instrument_map |-> token_to_instrument_map]

SetThread(t, frame) == threads' = [threads EXCEPT ![t] = frame]

\* The call and its cache test: with the list set, the cached values are
\* returned as they are at this moment.
ThreadCall(t) ==
    /\ threads[t].pc \in {"idle", "done"}
    /\ IF cache_hit(instruments_list)
       THEN SetThread(t, [IdleThread EXCEPT
                !.pc = "done",
                !.ret = Some(InstrumentsEnvelope(Val(instruments_list)))])
       ELSE SetThread(t, [IdleThread EXCEPT !.pc = "fetch"])
    /\ UNCHANGED <<adapter_vars, filter_vars, environ, env_file, response>>

\* instruments = self.kite.instruments(exchange or 'NSE'), or the except branch.
ThreadFetch(t) ==
    /\ threads[t].pc = "fetch"
    /\ Len(last.vendor) < MaxFetches
    /\ \E outcome \in ThreadOutcomes :
           /\ last' = [last EXCEPT !.op = "get_instruments",
                          !.vendor = Append(@, Called("instruments", "NSE", outcome))]
           /\ IF outcome.fault
              THEN SetThread(t, [threads[t] EXCEPT
                       !.pc = "done", !.ret = Some(Failure(<<outcome.message>>))])
              ELSE SetThread(t, [threads[t] EXCEPT
                       !.pc = "set_list", !.instruments = outcome.value])
    /\ UNCHANGED <<instruments_list, symbol_to_instrument_map, token_to_instrument_map,
                   access_token, first_fetched, filter_vars, environ, env_file, response>>

\* KiteService._instruments_list = instruments
ThreadSetList(t) ==
    /\ threads[t].pc = "set_list"
    /\ instruments_list' = Some(threads[t].instruments)
    /\ SetThread(t, [threads[t] EXCEPT !.pc = "set_symbol_map"])
    /\ UNCHANGED <<symbol_to_instrument_map, token_to_instrument_map, access_token,
                   first_fetched, last, filter_vars, environ, env_file, response>>

\* KiteService._symbol_to_instrument_map = {}
ThreadSetSymbolMap(t) ==
    /\ threads[t].pc = "set_symbol_map"
    /\ symbol_to_instrument_map' = Some(EmptyDict)
    /\ SetThread(t, [threads[t] EXCEPT !.pc = "set_token_map"])
    /\ UNCHANGED <<instruments_list, token_to_instrument_map, access_token,
                   first_fetched, last, filter_vars, environ, env_file, response>>

\* KiteService._token_to_instrument_map = {}
ThreadSetTokenMap(t) ==
    /\ threads[t].pc = "set_token_map"
    /\ token_to_instrument_map' = Some(EmptyDict)
    /\ SetThread(t, [threads[t] EXCEPT !.pc = "loop", !.i = 1])
    /\ UNCHANGED <<instruments_list, symbol_to_instrument_map, access_token,
                   first_fetched, last, filter_vars, environ, env_file, response>>

\* One pass of the loop: the instrument is stored in the maps the class
\* attributes name at this moment.
ThreadLoop(t) ==
    /\ threads[t].pc = "loop"
    /\ threads[t].i <= Len(threads[t].instruments)
    /\ LET instrument == threads[t].instruments[threads[t].i]
       IN /\ symbol_to_instrument_map' =
                 Some(BuildSymbolMap(<<instrument>>, Val(symbol_to_instrument_map)))
          /\ token_to_instrument_map' =
                 Some(BuildTokenMap(<<instrument>>, Val(token_to_instrument_map)))
    /\ SetThread(t, [threads[t] EXCEPT !.i = @ + 1])
    /\ UNCHANGED <<instruments_list, access_token, first_fetched, last, filter_vars,
                   environ, env_file, response>>

\* The return after the loop: the fetched list and the maps of the cache.
ThreadReturn(t) ==
    /\ threads[t].pc = "loop"
    /\ threads[t].i > Len(threads[t].instruments)
    /\ SetThread(t, [threads[t] EXCEPT
           !.pc = "done", !.ret = Some(InstrumentsEnvelope(threads[t].instruments))])
    /\ UNCHANGED <<adapter_vars, filter_vars, environ, env_file, response>>

\* The web service started, no request yet.
InitThreads ==
    /\ instruments_list = None
    /\ symbol_to_instrument_map = None
    /\ token_to_instrument_map = None
    /\ access_token = ""
    /\ first_fetched = None
    /\ last = NoOperation
    /\ FilterIdle
    /\ WebIdle

NextThreads ==
    \E t \in Threads :
        \/ ThreadCall(t)
        \/ ThreadFetch(t)
        \/ ThreadSetList(t)
        \/ ThreadSetSymbolMap(t)
        \/ ThreadSetTokenMap(t)
        \/ ThreadLoop(t)
        \/ ThreadReturn(t)

\* Requests for the instruments on up to MaxThreads threads, interleaved.
SpecThreads == InitThreads /\ [][NextThreads]_vars

\* --------------------------------------- properties of the shared cache

\* The threads that have called get_instruments.
Callers == {t \in Threads : threads[t].pc # "idle"}

\* The vendor calls that returned a catalog.
Fetched == {i \in DOMAIN last.vendor : last.vendor[i][3] = "ok"}

\* The thread's call has returned the success envelope.
ReturnedSuccess(t) ==
    /\ threads[t].pc = "done"
    /\ threads[t].ret # None
    /\ Val(threads[t].ret).success

\* The maps of the envelope are those of its list.
CompleteMaps(envelope) ==
    /\ envelope.symbol_to_instrument_map
           = Some(BuildSymbolMap(envelope.instruments, EmptyDict))
    /\ envelope.token_to_instrument_map
           = Some(BuildTokenMap(envelope.instruments, EmptyDict))

\* C29: as long as a single thread calls get_instruments, however often,
\* the vendor delivers the catalog at most once and every success envelope
\* returned has the complete maps of its list. (With two threads both
\* fail: see the witnesses.)
C29_SingleCallerSeesCompleteCache ==
    Cardinality(Callers) <= 1 =>
        /\ Cardinality(Fetched) <= 1
        /\ \A t \in Threads :
               ReturnedSuccess(t) => CompleteMaps(Val(threads[t].ret))

\* Two callers: one returned the success envelope with the list and a
\* symbol map that is still unset.
C29_Witness ==
    /\ Cardinality(Callers) = 2
    /\ \E t \in Threads :
           /\ ReturnedSuccess(t)
           /\ Val(threads[t].ret).instruments # <<>>
           /\ Val(threads[t].ret).symbol_to_instrument_map = None

\* Two callers: one returned the success envelope with maps that are set
\* but do not hold every instrument of the list.
C29_WitnessIncomplete ==
    \E t \in Threads :
        /\ ReturnedSuccess(t)
        /\ Val(threads[t].ret).symbol_to_instrument_map # None
        /\ Val(threads[t].ret).token_to_instrument_map # None
        /\ ~CompleteMaps(Val(threads[t].ret))

\* Two callers, and the vendor delivered the catalog twice.
C29_WitnessTwoFetches ==
    /\ Cardinality(Callers) = 2
    /\ Cardinality(Fetched) = 2

\* A single caller that called again after its fetch: the second call
\* returned the complete cache without a vendor call.
C29_WitnessSingleCaller ==
    /\ Cardinality(Callers) = 1
    /\ Cardinality(Fetched) = 1
    /\ \E t \in Threads :
           /\ ReturnedSuccess(t)
           /\ threads[t].instruments = <<>>
           /\ CompleteMaps(Val(threads[t].ret))

====
